---- MODULE Spec2Model ----
(***************************************************************************)
(* A model of cesar-money-mcp: the six analyzers of the analysis engine    *)
(* (analyzeSpending, detectAnomalies, detectTrends, analyzeSubscriptions,  *)
(* forecastCashflow and calculateHealthScore) and the HTTP server around   *)
(* them (the OAuth token store and endpoints, the bearer check, the rate   *)
(* limiter, the MCP sessions and their transport, and the shared Monarch   *)
(* client with its login in flight).                                       *)
(*                                                                         *)
(* Representation.                                                         *)
(*  - A JavaScript number is an exact rational <<n, d>> (d > 0, reduced).  *)
(*    Monetary inputs are whole cents: a record field holding the integer  *)
(*    c stands for the number c/100.                                       *)
(*  - A "YYYY-MM-DD" string is the ordinal of its day, day 0 being         *)
(*    BaseYear-01-01; string order on ISO dates is integer order.          *)
(*  - A merchant or category string is a sequence of one-character         *)
(*    strings.                                                             *)
(*  - A caller's array is a sequence; args holds the caller's arrays and   *)
(*    is rewritten by each call with what the call leaves in them.         *)
(*  - A random value (crypto.randomBytes, crypto.randomUUID) is the next   *)
(*    unused positive integer; a table of the token store is the set of    *)
(*    its rows; clock is Math.floor(Date.now() / 1000).                    *)
(***************************************************************************)
EXTENDS Integers, Sequences, FiniteSets, TLC

VARIABLES
  fn, args, today, pc, result,   \* a caller of the analysis engine
  clock,                         \* Math.floor(Date.now() / 1000)
  authCodes, tokens,             \* the tables auth_codes and tokens
  nextId,                        \* the next random value
  reply,                         \* what the last call or request returned
  audit,                         \* what has been issued, redeemed and revoked
  time,                          \* Date.now(), in milliseconds
  windows, admitted,             \* the rate limiter's Map, and the requests it let through
  sessions,                      \* the Map of MCP sessions
  pendingResponses, calls, inbox, \* a transport, its handleJsonRpc calls, its server's inbox
  clientInstance, loginPromise,  \* the module variables of the Monarch client
  logins, callers                \* the createClient() promises, the getMonarchClient calls

analysisVars == <<fn, args, today, pc, result>>
oauthVars == <<clock, authCodes, tokens, nextId, audit>>
limiterVars == <<windows, admitted>>
transportVars == <<pendingResponses, calls, inbox>>
httpVars == <<time, limiterVars, sessions, transportVars>>
monarchVars == <<clientInstance, loginPromise, logins, callers>>
serverVars == <<oauthVars, httpVars, monarchVars, reply>>
vars == <<analysisVars, serverVars>>

NoReply == <<>>

\* The server as it starts: empty tables, nothing issued.
NoAudit == [issued |-> {}, redeemed |-> <<>>, revoked |-> {}]

OAuthIdle ==
  /\ clock = 0
  /\ authCodes = {}
  /\ tokens = {}
  /\ nextId = 1
  /\ audit = NoAudit

\* An empty Map.
EmptyMap == [k \in {} |-> 0]

LimiterIdle == windows = EmptyMap /\ admitted = EmptyMap

TransportIdle == pendingResponses = EmptyMap /\ calls = <<>> /\ inbox = <<>>

HttpIdle == time = 0 /\ LimiterIdle /\ sessions = EmptyMap /\ TransportIdle

\* Monarch client ids and login indices are positive; 0 is null.
MaxCallers == 2

Callers == 1..MaxCallers

IdleCaller == [pc |-> "idle", login |-> 0, got |-> 0]

MonarchIdle ==
  /\ clientInstance = 0
  /\ loginPromise = 0
  /\ logins = <<>>
  /\ callers = [c \in Callers |-> IdleCaller]

ServerIdle == OAuthIdle /\ HttpIdle /\ MonarchIdle /\ reply = NoReply

\* No caller of the analysis engine.
AnalysisIdle ==
  /\ fn = "none"
  /\ args = <<>>
  /\ today = 0
  /\ pc = "idle"
  /\ result = <<>>

\* ------------------------------------------------------------ numbers

Abs(x) == IF x < 0 THEN -x ELSE x

RECURSIVE GCD(_, _)
GCD(a, b) == IF b = 0 THEN a ELSE GCD(b, a % b)

\* The rational n/d in lowest terms with a positive denominator (d # 0).
Rat(n, d) ==
  LET s == IF d < 0 THEN -1 ELSE 1
      g == GCD(Abs(n), Abs(d))
  IN  <<(s * n) \div g, (s * d) \div g>>

RInt(i) == <<i, 1>>
Cents(c) == Rat(c, 100)
RAdd(a, b) == Rat(a[1] * b[2] + b[1] * a[2], a[2] * b[2])
RSub(a, b) == Rat(a[1] * b[2] - b[1] * a[2], a[2] * b[2])
RMul(a, b) ==
  LET g1 == GCD(Abs(a[1]), b[2])
      g2 == GCD(Abs(b[1]), a[2])
  IN  Rat((a[1] \div g1) * (b[1] \div g2), (a[2] \div g2) * (b[2] \div g1))
RDiv(a, b) == RMul(a, Rat(b[2], b[1]))
RNeg(a) == <<-a[1], a[2]>>
RAbs(a) == <<Abs(a[1]), a[2]>>
RLt(a, b) == a[1] * b[2] < b[1] * a[2]
RLe(a, b) == a[1] * b[2] <= b[1] * a[2]
RMax(a, b) == IF RLt(a, b) THEN b ELSE a
RMin(a, b) == IF RLt(b, a) THEN b ELSE a
RZero == RInt(0)
RIsZero(a) == a[1] = 0

\* Math.round: the nearest integer, a tie going up.
MathRound(a) ==
  (a[1] \div a[2]) + (IF 2 * (a[1] % a[2]) >= a[2] THEN 1 ELSE 0)

\* round(n): Math.round(n * 100) / 100.
Round2(a) == Rat(MathRound(RMul(a, RInt(100))), 100)

RECURSIVE RSumSeq(_)
RSumSeq(s) == IF s = <<>> THEN RZero ELSE RAdd(s[1], RSumSeq(Tail(s)))

\* ------------------------------------------------------------ arrays

\* The positions 1..Len(keys) in the order a stable ascending sort by key
\* leaves them: a position moves in front of another only when its key is
\* strictly smaller (Array.prototype.sort is stable).
RECURSIVE InsertIdx(_, _, _)
InsertIdx(i, idx, keys) ==
  IF idx = <<>> THEN <<i>>
  ELSE IF keys[i] < keys[idx[Len(idx)]]
       THEN InsertIdx(i, SubSeq(idx, 1, Len(idx) - 1), keys) \o <<idx[Len(idx)]>>
       ELSE idx \o <<i>>

RECURSIVE SortIdxUpTo(_, _)
SortIdxUpTo(keys, n) ==
  IF n = 0 THEN <<>> ELSE InsertIdx(n, SortIdxUpTo(keys, n - 1), keys)

\* arr.sort((a, b) => key(a) - key(b)), keys[i] being the key of arr[i].
SortByKeys(arr, keys) ==
  LET idx == SortIdxUpTo(keys, Len(arr))
  IN  [i \in 1..Len(arr) |-> arr[idx[i]]]

\* arr.sort(cmp): the caller's array itself is sorted.
SortedInPlace(arr, keys) ==
  [sorted |-> SortByKeys(arr, keys), arr |-> SortByKeys(arr, keys)]

\* [...arr].sort(cmp): the copy is sorted, the caller's array is untouched.
SortedCopy(arr, keys) ==
  [sorted |-> SortByKeys(arr, keys), arr |-> arr]

\* All sequences over S of length at most n.
SeqUpTo(S, n) == UNION {[1..k -> S] : k \in 0..n}

Range(s) == {s[i] : i \in DOMAIN s}

\* An optional argument or field: <<>> when it is undefined, <<v>> when given.
Undefined == <<>>
OrElse(opt, default) == IF opt = <<>> THEN default ELSE opt[1]

\* The amounts of an array of records, as numbers.
AmountOf(tx) == Cents(tx.amount)

RECURSIVE SumCents(_)
SumCents(s) == IF s = <<>> THEN 0 ELSE s[1] + SumCents(Tail(s))

MinOf(S) == CHOOSE x \in S : \A y \in S : x <= y
MaxOf(S) == CHOOSE x \in S : \A y \in S : y <= x

Tx(id, date, amount, merchant, category) ==
  [id |-> id, date |-> date, amount |-> amount, merchant |-> merchant,
   category |-> category]

CategoryObj(name) == [kind |-> "object", name |-> name]
CategoryNull == [kind |-> "null", name |-> ""]
CategoryUndefined == [kind |-> "undefined", name |-> ""]

\* ================================================== calculateHealthScore

\* weights that sum to 1.05
WeightsUnbalanced ==
  [savingsRate |-> Rat(25, 100), debtRatio |-> Rat(20, 100),
   emergencyFund |-> Rat(20, 100), budgetAdherence |-> Rat(20, 100),
   netWorthTrend |-> Rat(20, 100)]

WEIGHTS ==
  [savingsRate |-> Rat(25, 100), debtRatio |-> Rat(20, 100),
   emergencyFund |-> Rat(20, 100), budgetAdherence |-> Rat(20, 100),
   netWorthTrend |-> Rat(15, 100)]

LinearScale(value, inMin, inMax, outMin, outMax) ==
  IF inMax = inMin THEN RDiv(RAdd(outMin, outMax), RInt(2))
  ELSE RAdd(outMin,
            RMul(RDiv(RSub(value, inMin), RSub(inMax, inMin)),
                 RSub(outMax, outMin)))

\* clamp without its bounds
ClampNone(value, min, max) == value

Clamp(value, min, max) == RMin(max, RMax(min, value))

\* daysBetween of health.ts, anomalies.ts and subscriptions.ts.
DaysBetweenAbs(a, b) == Abs(b - a)

ScoreSavingsRate(transactions) ==
  IF Len(transactions) = 0
  THEN [score |-> RInt(50), value |-> RZero, description |-> "No transaction data"]
  ELSE
    LET income == SumCents([i \in DOMAIN transactions |->
                     IF transactions[i].amount > 0 THEN transactions[i].amount ELSE 0])
        spending == SumCents([i \in DOMAIN transactions |->
                     IF transactions[i].amount > 0 THEN 0 ELSE Abs(transactions[i].amount)])
    IN  IF income = 0
        THEN [score |-> RZero, value |-> RZero, description |-> "No income detected"]
        ELSE
          LET rate == RDiv(RSub(Cents(income), Cents(spending)), Cents(income))
              value == Round2(RMul(rate, RInt(100)))
              score == Clamp(Round2(LinearScale(rate, Rat(-1, 10), Rat(25, 100),
                                                RZero, RInt(100))),
                             RZero, RInt(100))
          IN  [score |-> score, value |-> value,
               description |->
                 IF RLe(RInt(20), value) THEN "Excellent savings rate"
                 ELSE IF RLe(RInt(10), value) THEN "Good savings rate"
                 ELSE IF RLe(RZero, value) THEN "Savings rate"
                 ELSE "Negative savings rate"]

IsDebtType(type) == type \in {"credit", "loan", "mortgage"}

ScoreDebtRatio(accounts) ==
  IF Len(accounts) = 0
  THEN [score |-> RInt(50), value |-> RZero, description |-> "No account data"]
  ELSE
    LET assets == SumCents([i \in DOMAIN accounts |->
                     IF IsDebtType(accounts[i].type) THEN 0
                     ELSE IF accounts[i].currentBalance > 0
                          THEN accounts[i].currentBalance ELSE 0])
        debts == SumCents([i \in DOMAIN accounts |->
                     IF IsDebtType(accounts[i].type)
                     THEN Abs(accounts[i].currentBalance) ELSE 0])
    IN  IF assets = 0 /\ debts = 0
        THEN [score |-> RInt(50), value |-> RZero, description |-> "No balances detected"]
        ELSE
          LET ratio == IF assets > 0 THEN RDiv(Cents(debts), Cents(assets))
                       ELSE IF debts > 0 THEN RInt(1) ELSE RZero
              value == Round2(RMul(ratio, RInt(100)))
              score == Clamp(Round2(LinearScale(ratio, RInt(1), RZero,
                                                RZero, RInt(100))),
                             RZero, RInt(100))
          IN  [score |-> score, value |-> value,
               description |->
                 IF RLe(value, RInt(20)) THEN "Low debt-to-asset ratio"
                 ELSE IF RLe(value, RInt(50)) THEN "Moderate debt-to-asset ratio"
                 ELSE "High debt-to-asset ratio"]

ScoreEmergencyFund(accounts, transactions, targetMonths) ==
  LET liquid == SumCents([i \in DOMAIN accounts |->
                   IF accounts[i].type = "depository" /\ accounts[i].currentBalance > 0
                   THEN accounts[i].currentBalance ELSE 0])
      expenses == SelectSeq(transactions, LAMBDA tx : tx.amount < 0)
  IN  IF Len(expenses) = 0
      THEN [score |-> IF liquid > 0 THEN RInt(75) ELSE RInt(50), value |-> RZero,
            description |-> IF liquid > 0 THEN "Unable to compute monthly expenses"
                            ELSE "No expense or savings data"]
      ELSE
        LET totalExpenses == SumCents([i \in DOMAIN expenses |-> Abs(expenses[i].amount)])
            dates == {expenses[i].date : i \in DOMAIN expenses}
            firstDate == MinOf(dates)
            lastDate == MaxOf(dates)
            span == DaysBetweenAbs(firstDate, lastDate) + 1
            daysSpanned == IF span < 1 THEN 1 ELSE span
            monthsSpanned == Rat(daysSpanned, 30)
            monthlyExpenses == RDiv(Cents(totalExpenses), monthsSpanned)
        IN  IF RIsZero(monthlyExpenses)
            THEN [score |-> RInt(100), value |-> RZero, description |-> "No expenses detected"]
            ELSE
              LET monthsCovered == RDiv(Cents(liquid), monthlyExpenses)
                  value == Round2(monthsCovered)
                  score == Clamp(Round2(LinearScale(monthsCovered, RZero, RInt(targetMonths),
                                                    RZero, RInt(100))),
                                 RZero, RInt(100))
              IN  [score |-> score, value |-> value,
                   description |->
                     IF RLe(RInt(targetMonths), monthsCovered) THEN "meeting the target"
                     ELSE IF RLe(RInt(3), monthsCovered) THEN "Aim for target"
                     ELSE IF RLe(RInt(1), monthsCovered) THEN "only covers"
                     ELSE "less than 1 month"]

ScoreBudgetAdherence(budgets) ==
  IF Len(budgets) = 0
  THEN [score |-> RInt(50), value |-> RZero, description |-> "No budget data"]
  ELSE
    LET onBudgetCount == Cardinality({i \in DOMAIN budgets :
                                        budgets[i].actual <= budgets[i].budgeted})
        adherenceRate == Rat(onBudgetCount, Len(budgets))
        value == Round2(RMul(adherenceRate, RInt(100)))
        score == Clamp(Round2(RMul(adherenceRate, RInt(100))), RZero, RInt(100))
    IN  [score |-> score, value |-> value,
         description |->
           IF RLe(RInt(90), value) THEN "Excellent budget adherence"
           ELSE IF RLe(RInt(70), value) THEN "Good budget adherence"
           ELSE "Review over-budget categories"]

\* const sorted = [...history].sort((a, b) => a.date.localeCompare(b.date))
SortNetWorthHistory(history) ==
  SortedCopy(history, [i \in DOMAIN history |-> history[i].date])

ScoreNetWorthTrend(history) ==
  IF Len(history) < 2
  THEN [score |-> RInt(50), value |-> RZero, description |-> "Insufficient net-worth history"]
  ELSE
    LET sorted == SortNetWorthHistory(history).sorted
        first == sorted[1].netWorth
        last == sorted[Len(sorted)].netWorth
        totalChange == last - first
        changePct == IF first # 0
                     THEN Round2(RMul(RDiv(Cents(totalChange), RAbs(Cents(first))), RInt(100)))
                     ELSE IF totalChange > 0 THEN RInt(100) ELSE RZero
        value == Round2(changePct)
        score == Clamp(Round2(LinearScale(changePct, RInt(-20), RInt(20),
                                          RZero, RInt(100))),
                       RZero, RInt(100))
    IN  [score |-> score, value |-> value,
         description |->
           IF RLt(RInt(5), changePct) THEN "trending up"
           ELSE IF RLe(RInt(-5), changePct) THEN "relatively stable"
           ELSE "has declined"]

\* budget adherence held to the threshold of the others
GenerateRecommendationsOneThreshold(components) ==
  LET recs ==
        (IF RLt(components.savingsRate.score, RInt(50))
         THEN <<"Increase your savings rate">> ELSE <<>>)
        \o (IF RLt(components.debtRatio.score, RInt(50))
            THEN <<"Focus on paying down high-interest debt">> ELSE <<>>)
        \o (IF RLt(components.emergencyFund.score, RInt(50))
            THEN <<"Build your emergency fund">> ELSE <<>>)
        \o (IF RLt(components.budgetAdherence.score, RInt(50))
            THEN <<"Review budget categories">> ELSE <<>>)
        \o (IF RLt(components.netWorthTrend.score, RInt(50))
            THEN <<"Your net worth is declining">> ELSE <<>>)
  IN  IF Len(recs) = 0 THEN <<"Your finances are in good shape">> ELSE recs

GenerateRecommendations(components) ==
  LET recs ==
        (IF RLt(components.savingsRate.score, RInt(50))
         THEN <<"Increase your savings rate">> ELSE <<>>)
        \o (IF RLt(components.debtRatio.score, RInt(50))
            THEN <<"Focus on paying down high-interest debt">> ELSE <<>>)
        \o (IF RLt(components.emergencyFund.score, RInt(50))
            THEN <<"Build your emergency fund">> ELSE <<>>)
        \o (IF RLt(components.budgetAdherence.score, RInt(70))
            THEN <<"Review budget categories">> ELSE <<>>)
        \o (IF RLt(components.netWorthTrend.score, RInt(50))
            THEN <<"Your net worth is declining">> ELSE <<>>)
  IN  IF Len(recs) = 0 THEN <<"Your finances are in good shape">> ELSE recs

CalculateHealthScore(data) ==
  LET components ==
        [savingsRate |-> ScoreSavingsRate(data.transactions),
         debtRatio |-> ScoreDebtRatio(data.accounts),
         emergencyFund |-> ScoreEmergencyFund(data.accounts, data.transactions,
                                              OrElse(data.emergencyFundMonths, 6)),
         budgetAdherence |-> ScoreBudgetAdherence(data.budgets),
         netWorthTrend |-> ScoreNetWorthTrend(data.netWorthHistory)]
      overall ==
        Round2(RAdd(RAdd(RAdd(RAdd(
          RMul(components.savingsRate.score, WEIGHTS.savingsRate),
          RMul(components.debtRatio.score, WEIGHTS.debtRatio)),
          RMul(components.emergencyFund.score, WEIGHTS.emergencyFund)),
          RMul(components.budgetAdherence.score, WEIGHTS.budgetAdherence)),
          RMul(components.netWorthTrend.score, WEIGHTS.netWorthTrend)))
  IN  [overall |-> Clamp(overall, RZero, RInt(100)),
       components |-> components,
       recommendations |-> GenerateRecommendations(components)]

\* What the call leaves in the caller's data.
HealthDataAfter(data) ==
  [data EXCEPT !.netWorthHistory =
     IF Len(data.netWorthHistory) < 2 THEN data.netWorthHistory
     ELSE SortNetWorthHistory(data.netWorthHistory).arr]


\* ---------------------------------------------- inputs of the health scorer

MaxHealthAccounts == 2
MaxHealthTx == 2
MaxBudgets == 2
MaxHistory == 2

HealthAccounts ==
  { [id |-> "a", displayName |-> "A", currentBalance |-> b, type |-> t] :
      <<t, b>> \in { <<"depository", 10000>>, <<"depository", 0>>,
                     <<"credit", 500000>>, <<"loan", -2000>> } }

HealthTxs ==
  { Tx("t", d, a, <<"s">>, CategoryObj("Food")) :
      <<d, a>> \in { <<0, -30000>>, <<59, -6000>>, <<0, 50000>>, <<59, 100>> } }

HealthBudgets ==
  { [category |-> "c", budgeted |-> b[1], actual |-> b[2]] :
      b \in { <<10000, 5000>>, <<10000, 15000>>, <<0, 0>> } }

HealthHistory ==
  { [date |-> h[1], netWorth |-> h[2]] :
      h \in { <<31, 100000>>, <<0, 80000>>, <<59, -50000>>, <<0, 0>> } }

HealthTargets == { Undefined, <<0>>, <<-3>>, <<3>> }

HealthData(acc, txs, bud, hist, target) ==
  [accounts |-> acc, transactions |-> txs, budgets |-> bud,
   netWorthHistory |-> hist, emergencyFundMonths |-> target]

\* Two families of calls: one varies the accounts, the transactions and the
\* emergency-fund target, the other the budgets and the net-worth history.
HealthFixedBudgets == { <<>>, <<[category |-> "c", budgeted |-> 10000, actual |-> 15000]>> }
HealthFixedHistory ==
  { <<>>, <<[date |-> 31, netWorth |-> 100000], [date |-> 0, netWorth |-> 200000]>> }
HealthFixedAccounts ==
  { <<>>, <<[id |-> "a", displayName |-> "A", currentBalance |-> 10000,
             type |-> "depository"]>> }
HealthFixedTxs ==
  { <<>>, <<Tx("t", 0, 50000, <<"s">>, CategoryObj("Food")),
            Tx("t", 29, -10000, <<"s">>, CategoryObj("Food"))>> }

HealthInputIs(data) ==
  \/ \E acc \in SeqUpTo(HealthAccounts, MaxHealthAccounts),
        txs \in SeqUpTo(HealthTxs, MaxHealthTx),
        bud \in HealthFixedBudgets, hist \in HealthFixedHistory,
        target \in HealthTargets :
        data = HealthData(acc, txs, bud, hist, target)
  \/ \E acc \in HealthFixedAccounts, txs \in HealthFixedTxs,
        bud \in SeqUpTo(HealthBudgets, MaxBudgets),
        hist \in SeqUpTo(HealthHistory, MaxHistory) :
        data = HealthData(acc, txs, bud, hist, Undefined)

\* ------------------------------------------------------------ the calls

NoResult == <<>>

\* The days the clock may show when a call is made.
Todays == {40, 45}
FirstToday == MinOf(Todays)

InitHealth ==
  /\ fn = "calculateHealthScore"
  /\ HealthInputIs(args)
  /\ today = FirstToday
  /\ pc = "ready"
  /\ result = NoResult
  /\ ServerIdle

CallHealth ==
  /\ pc = "ready"
  /\ fn = "calculateHealthScore"
  /\ result' = CalculateHealthScore(args)
  /\ args' = HealthDataAfter(args)
  /\ pc' = "done"
  /\ UNCHANGED <<fn, today>>
  /\ UNCHANGED serverVars

SpecHealth == InitHealth /\ [][CallHealth]_vars

ComponentNames ==
  {"savingsRate", "debtRatio", "emergencyFund", "budgetAdherence", "netWorthTrend"}

InScoreRange(x) == RLe(RZero, x) /\ RLe(x, RInt(100))

HealthDone == pc = "done" /\ fn = "calculateHealthScore"

\* C1: whatever the accounts, transactions, budgets, net-worth history and
\* emergency-fund target are, each of the five component scores and the
\* overall score of calculateHealthScore lies in [0, 100].
C1_ScoresInRange ==
  HealthDone =>
    /\ InScoreRange(result.overall)
    /\ \A c \in ComponentNames : InScoreRange(result.components[c].score)

\* A call whose debts are far above its assets (ratio above 100%) and whose
\* debt score was clamped to 0.
C1_Witness ==
  /\ HealthDone
  /\ RLt(RInt(100), result.components.debtRatio.value)
  /\ result.components.debtRatio.score = RZero
  /\ RLt(RZero, result.components.savingsRate.score)

EmptyHealthData(data) ==
  /\ data.accounts = <<>> /\ data.transactions = <<>>
  /\ data.budgets = <<>> /\ data.netWorthHistory = <<>>

\* C2: with empty accounts, transactions, budgets and net-worth history every
\* component scores 50 and the overall score is exactly 50.
C2_EmptyIsNeutral ==
  (HealthDone /\ EmptyHealthData(args)) =>
    /\ result.overall = RInt(50)
    /\ \A c \in ComponentNames : result.components[c].score = RInt(50)

C2_Witness == HealthDone /\ EmptyHealthData(args) /\ result.overall = RInt(50)


\* ====================================================== analyzeSpending

\* Array.prototype.slice(0, n)
Slice0(s, n) ==
  LET e == IF n < 0 THEN (IF Len(s) + n < 0 THEN 0 ELSE Len(s) + n)
           ELSE (IF n > Len(s) THEN Len(s) ELSE n)
  IN  SubSeq(s, 1, e)

\* The integer number of cents of a number already rounded to cents.
CentsOf(r) == r[1] * (100 \div r[2])

FilterByPeriod(transactions, start, end) ==
  IF start = Undefined /\ end = Undefined THEN transactions
  ELSE SelectSeq(transactions,
         LAMBDA tx : /\ ~(start # Undefined /\ tx.date < start[1])
                     /\ ~(end # Undefined /\ tx.date > end[1]))

\* the period taken from the clock whenever a bound is missing
DerivePeriodFromClock(transactions, start, end, now) ==
  IF start # Undefined /\ end # Undefined THEN [start |-> start[1], end |-> end[1]]
  ELSE [start |-> OrElse(start, now), end |-> OrElse(end, now)]

DerivePeriod(transactions, start, end, now) ==
  IF start # Undefined /\ end # Undefined THEN [start |-> start[1], end |-> end[1]]
  ELSE IF Len(transactions) = 0
       THEN [start |-> OrElse(start, now), end |-> OrElse(end, now)]
       ELSE LET dates == {transactions[i].date : i \in DOMAIN transactions}
            IN  [start |-> OrElse(start, MinOf(dates)), end |-> OrElse(end, MaxOf(dates))]

\* daysBetween of spending.ts: inclusive, at least 1.
DaysBetweenInclusive(a, b) == IF (b - a) + 1 < 1 THEN 1 ELSE (b - a) + 1

\* tx.category.name: a TypeError when category is null or undefined.
CategoryNameThrows(tx) == tx.category.kind # "object"

\* tx.category.name || "Uncategorized"
CategoryKey(tx) == IF tx.category.name = "" THEN "Uncategorized" ELSE tx.category.name

\* The categoryMap after the aggregation loop over the expenses, its entries
\* in insertion order; amounts in cents.
RECURSIVE CategoryMapOf(_)
CategoryMapOf(expenses) ==
  IF expenses = <<>> THEN <<>>
  ELSE
    LET n == Len(expenses)
        before == CategoryMapOf(SubSeq(expenses, 1, n - 1))
        tx == expenses[n]
        cat == CategoryKey(tx)
    IN  IF \E i \in DOMAIN before : before[i].category = cat
        THEN [i \in DOMAIN before |->
                IF before[i].category = cat
                THEN [before[i] EXCEPT !.amount = @ + Abs(tx.amount),
                                       !.transactionCount = @ + 1]
                ELSE before[i]]
        ELSE before \o <<[category |-> cat, amount |-> Abs(tx.amount),
                         transactionCount |-> 1]>>

\* the share left as a fraction, not scaled to a percentage
PercentageUnscaled(amount, totalSpending) ==
  IF totalSpending > 0 THEN Round2(RDiv(Cents(amount), Cents(totalSpending))) ELSE RZero

Percentage(amount, totalSpending) ==
  IF totalSpending > 0
  THEN Round2(RMul(RDiv(Cents(amount), Cents(totalSpending)), RInt(100)))
  ELSE RZero

Breakdowns(categoryMap, totalSpending) ==
  LET unsorted == [i \in DOMAIN categoryMap |->
                     [category |-> categoryMap[i].category,
                      amount |-> Round2(Cents(categoryMap[i].amount)),
                      percentage |-> Percentage(categoryMap[i].amount, totalSpending),
                      transactionCount |-> categoryMap[i].transactionCount]]
  IN  SortByKeys(unsorted, [i \in DOMAIN unsorted |-> -CentsOf(unsorted[i].amount)])

TopCategories(breakdowns, topN) == Slice0(breakdowns, topN)

\* the prior total taken over every transaction, income included
ComparisonToPriorPeriodAllAmounts(totalSpending, prior) ==
  IF prior # Undefined /\ Len(prior[1]) > 0
  THEN
    LET txs == prior[1]
        priorSpending == SumCents([i \in DOMAIN txs |-> Abs(txs[i].amount)])
        spendingChange == Round2(RSub(Cents(totalSpending), Cents(priorSpending)))
    IN  <<[spendingChange |-> spendingChange,
           spendingChangePercent |->
             IF priorSpending > 0
             THEN Round2(RMul(RDiv(spendingChange, Cents(priorSpending)), RInt(100)))
             ELSE RZero]>>
  ELSE Undefined

ComparisonToPriorPeriod(totalSpending, prior) ==
  IF prior # Undefined /\ Len(prior[1]) > 0
  THEN
    LET txs == prior[1]
        priorSpending == SumCents([i \in DOMAIN txs |->
                            IF txs[i].amount < 0 THEN Abs(txs[i].amount) ELSE 0])
        spendingChange == Round2(RSub(Cents(totalSpending), Cents(priorSpending)))
    IN  <<[spendingChange |-> spendingChange,
           spendingChangePercent |->
             IF priorSpending > 0
             THEN Round2(RMul(RDiv(spendingChange, Cents(priorSpending)), RInt(100)))
             ELSE RZero]>>
  ELSE Undefined

AnalyzeSpending(transactions, options, now) ==
  LET topN == OrElse(options.topN, 10)
      filtered == FilterByPeriod(transactions, options.startDate, options.endDate)
      period == DerivePeriod(filtered, options.startDate, options.endDate, now)
      expenses == SelectSeq(filtered, LAMBDA tx : tx.amount < 0)
  IN  IF \E i \in DOMAIN expenses : CategoryNameThrows(expenses[i])
      THEN [threw |-> TRUE, error |-> "TypeError"]
      ELSE
        LET totalSpending == SumCents([i \in DOMAIN expenses |-> Abs(expenses[i].amount)])
            totalIncome == SumCents([i \in DOMAIN filtered |->
                              IF filtered[i].amount < 0 THEN 0 ELSE filtered[i].amount])
            categoryMap == CategoryMapOf(expenses)
            breakdowns == Breakdowns(categoryMap, totalSpending)
            days == DaysBetweenInclusive(period.start, period.end)
        IN  [threw |-> FALSE,
             period |-> period,
             totalSpending |-> Round2(Cents(totalSpending)),
             totalIncome |-> Round2(Cents(totalIncome)),
             netCashflow |-> Round2(RSub(Cents(totalIncome), Cents(totalSpending))),
             topCategories |-> TopCategories(breakdowns, topN),
             dailyAverage |-> IF days > 0 THEN Round2(RDiv(Cents(totalSpending), RInt(days)))
                              ELSE Round2(Cents(totalSpending)),
             comparisonToPriorPeriod |->
               ComparisonToPriorPeriod(totalSpending, options.priorPeriodTransactions)]

\* ------------------------------------------- inputs of the spending analyzer

MaxSpendTx == 3

SpendTxs ==
  { Tx("t", x[1], x[2], <<"s">>, x[3]) :
      x \in { <<10, -10000, CategoryObj("Food")>>, <<20, -5000, CategoryObj("Rent")>>,
              <<10, -3333, CategoryObj("Fun")>>, <<20, 20000, CategoryObj("Food")>>,
              <<20, -2500, CategoryObj("")>>, <<10, -7500, CategoryNull>>,
              <<20, -1000, CategoryUndefined>> } }

SpendOptions ==
  [startDate : {Undefined, <<15>>}, endDate : {Undefined, <<15>>},
   topN : {Undefined, <<1>>, <<2>>},
   priorPeriodTransactions :
     {Undefined, << <<>> >>, << <<Tx("p", 1, -4000, <<"s">>, CategoryObj("Food"))>> >>}]

InitSpending ==
  /\ fn = "analyzeSpending"
  /\ \E txs \in SeqUpTo(SpendTxs, MaxSpendTx), options \in SpendOptions :
       args = [transactions |-> txs, options |-> options]
  /\ today \in Todays
  /\ pc = "ready"
  /\ result = NoResult
  /\ ServerIdle

CallSpending ==
  /\ pc = "ready"
  /\ fn = "analyzeSpending"
  /\ result' = AnalyzeSpending(args.transactions, args.options, today)
  /\ args' = args
  /\ pc' = "done"
  /\ UNCHANGED <<fn, today>>
  /\ UNCHANGED serverVars

SpecSpending == InitSpending /\ [][CallSpending]_vars

SpendingDone == pc = "done" /\ fn = "analyzeSpending"


\* The expenses the call aggregates, and their distinct category buckets.
SpendExpenses ==
  SelectSeq(FilterByPeriod(args.transactions, args.options.startDate, args.options.endDate),
            LAMBDA tx : tx.amount < 0)
SpendCategoryKeys == {CategoryKey(SpendExpenses[i]) : i \in DOMAIN SpendExpenses}

PercentageSum(top) == RSumSeq([i \in DOMAIN top |-> top[i].percentage])

\* Each percentage is rounded to 1/100, so k of them sum to within k * 0.005.
SumsTo100(top) ==
  RLe(RAbs(RSub(PercentageSum(top), RInt(100))), Rat(5 * Len(top), 1000))

\* C3 (as claimed): for every call with total spending > 0, whatever the
\* options, the percentages of topCategories sum to 100 within rounding.
C3_PercentagesSumTo100 ==
  (SpendingDone /\ ~result.threw /\ RLt(RZero, result.totalSpending)) =>
    SumsTo100(result.topCategories)

\* C3 (amended): topCategories holds the min(topN, number of categories)
\* largest buckets; when no bucket is cut off (at most topN distinct
\* categories) their percentages sum to 100 within 0.005 per category, and
\* otherwise the sum does not exceed that.
C3_PercentagesSumWhenAllReturned ==
  (SpendingDone /\ ~result.threw /\ RLt(RZero, result.totalSpending)) =>
    LET topN == OrElse(args.options.topN, 10)
        k == Cardinality(SpendCategoryKeys)
        top == result.topCategories
    IN  /\ Len(top) = IF k <= topN THEN k ELSE topN
        /\ k <= topN => SumsTo100(top)
        /\ RLe(PercentageSum(top), RAdd(RInt(100), Rat(5 * Len(top), 1000)))

\* Three categories, all returned.
C3_Witness ==
  /\ SpendingDone /\ ~result.threw /\ RLt(RZero, result.totalSpending)
  /\ Len(result.topCategories) = 3
  /\ args.options.topN = Undefined

MissingCategory(tx) == tx.category.kind \in {"null", "undefined"}

\* C4 (as claimed): an expense whose category is null or undefined does not
\* make analyzeSpending throw; it is counted in totalSpending and accumulated
\* in the bucket "Uncategorized".
C4_NullCategoryIsUncategorized ==
  (SpendingDone /\ \E i \in DOMAIN SpendExpenses : MissingCategory(SpendExpenses[i])) =>
    /\ ~result.threw
    /\ result.totalSpending =
         Cents(SumCents([i \in DOMAIN SpendExpenses |-> Abs(SpendExpenses[i].amount)]))
    /\ Len(result.topCategories) = Cardinality(SpendCategoryKeys) =>
         \E i \in DOMAIN result.topCategories :
           /\ result.topCategories[i].category = "Uncategorized"
           /\ result.topCategories[i].amount =
                Cents(SumCents([j \in DOMAIN SpendExpenses |->
                        IF CategoryKey(SpendExpenses[j]) = "Uncategorized"
                        THEN Abs(SpendExpenses[j].amount) ELSE 0]))


\* ====================================================== detectAnomalies

\* String.prototype.toLowerCase, one character at a time.
LowerChar(c) == IF c = "A" THEN "a" ELSE IF c = "B" THEN "b" ELSE c
ToLowerCase(str) == [i \in DOMAIN str |-> LowerChar(str[i])]

\* String.prototype.trim
RECURSIVE TrimStart(_)
TrimStart(str) ==
  IF str # <<>> /\ str[1] = " " THEN TrimStart(Tail(str)) ELSE str
RECURSIVE TrimEnd(_)
TrimEnd(str) ==
  IF str # <<>> /\ str[Len(str)] = " " THEN TrimEnd(SubSeq(str, 1, Len(str) - 1)) ELSE str
Trim(str) == TrimEnd(TrimStart(str))

NormalizeMerchant(merchant) == ToLowerCase(Trim(merchant))

\* One entry of buildMerchantStats: the mean, the sample variance (stdDev is
\* its square root) and the count of the absolute amounts of a merchant.
MerchantStat(amounts) ==
  LET n == Len(amounts)
      mean == RDiv(RSumSeq(amounts), RInt(n))
      squares == RSumSeq([i \in DOMAIN amounts |->
                   RMul(RSub(amounts[i], mean), RSub(amounts[i], mean))])
  IN  [mean |-> mean,
       variance |-> IF n > 1 THEN RDiv(squares, RInt(n - 1)) ELSE RZero,
       count |-> n]

\* merchantStats.get(key) after buildMerchantStats(baseline); Undefined when
\* the baseline has no transaction of the merchant.
MerchantStatsGet(baseline, key) ==
  LET mine == SelectSeq(baseline, LAMBDA tx : NormalizeMerchant(tx.merchant) = key)
  IN  IF Len(mine) = 0 THEN Undefined
      ELSE <<MerchantStat([i \in DOMAIN mine |-> RAbs(AmountOf(mine[i]))])>>

\* severityFromMultiplier(deviation / stdDev), on the squares.
SeverityFromMultiplier(deviationSq, variance) ==
  IF RLe(RMul(RInt(16), variance), deviationSq) THEN "high"
  ELSE IF RLe(RMul(RInt(9), variance), deviationSq) THEN "medium"
  ELSE "low"

AnomalyTx(tx) == [id |-> tx.id, date |-> tx.date, amount |-> tx.amount,
                  merchant |-> tx.merchant]

\* Pass 2: the unusual-amount anomaly of one transaction, if any.
UnusualAmount(tx, baseline, stdDevThreshold, minTxForStats) ==
  LET stats == MerchantStatsGet(baseline, NormalizeMerchant(tx.merchant))
  IN  IF stats = Undefined \/ stats[1].count < minTxForStats THEN <<>>
      ELSE
        LET deviation == RAbs(RSub(RAbs(AmountOf(tx)), stats[1].mean))
            deviationSq == RMul(deviation, deviation)
            thresholdSq == RMul(RMul(stdDevThreshold, stdDevThreshold), stats[1].variance)
        IN  IF /\ RLt(RZero, stats[1].variance)
               /\ (RLt(stdDevThreshold, RZero) \/ RLt(thresholdSq, deviationSq))
            THEN <<[type |-> "unusual_amount",
                    severity |-> SeverityFromMultiplier(deviationSq, stats[1].variance),
                    description |-> <<"is standard deviations from the average">>,
                    transaction |-> AnomalyTx(tx)]>>
            ELSE <<>>

RECURSIVE UnusualAmounts(_, _, _, _)
UnusualAmounts(transactions, baseline, stdDevThreshold, minTxForStats) ==
  IF transactions = <<>> THEN <<>>
  ELSE UnusualAmount(transactions[1], baseline, stdDevThreshold, minTxForStats)
       \o UnusualAmounts(Tail(transactions), baseline, stdDevThreshold, minTxForStats)

\* const sorted = [...transactions].sort((a, b) => a.date.localeCompare(b.date))
SortByDate(transactions) ==
  SortedCopy(transactions, [i \in DOMAIN transactions |-> transactions[i].date])

\* the window taken as exclusive
PastWindowExclusive(tx, other, duplicateWindowDays) ==
  DaysBetweenAbs(tx.date, other.date) >= duplicateWindowDays

\* Pass 3, the test of the inner loop: once we are past the window, stop.
PastWindow(tx, other, duplicateWindowDays) ==
  DaysBetweenAbs(tx.date, other.date) > duplicateWindowDays

IsDuplicateOf(tx, other) ==
  /\ tx.id # other.id
  /\ NormalizeMerchant(tx.merchant) = NormalizeMerchant(other.merchant)
  /\ tx.amount = other.amount

\* The inner loop from position j on, for the transaction at position i.
RECURSIVE DuplicatesFrom(_, _, _, _)
DuplicatesFrom(sorted, i, j, duplicateWindowDays) ==
  IF j > Len(sorted) THEN <<>>
  ELSE IF PastWindow(sorted[i], sorted[j], duplicateWindowDays) THEN <<>>
  ELSE (IF IsDuplicateOf(sorted[i], sorted[j])
        THEN <<[type |-> "duplicate", severity |-> "medium",
                description |-> <<"Possible duplicate", sorted[i].date, sorted[j].date>>,
                transaction |-> AnomalyTx(sorted[j])]>>
        ELSE <<>>)
       \o DuplicatesFrom(sorted, i, j + 1, duplicateWindowDays)

\* The outer loop from position i on.
RECURSIVE Duplicates(_, _, _)
Duplicates(sorted, i, duplicateWindowDays) ==
  IF i > Len(sorted) THEN <<>>
  ELSE DuplicatesFrom(sorted, i, i + 1, duplicateWindowDays)
       \o Duplicates(sorted, i + 1, duplicateWindowDays)

\* the merchant is left unmarked
MarkSeenNever(baselineMerchants, norm) == baselineMerchants

\* baselineMerchants.add(norm): mark as seen within the same scan
MarkSeen(baselineMerchants, norm) == baselineMerchants \cup {norm}

\* Pass 4: the scan for first-time merchants, baselineMerchants being the
\* set of normalized merchants seen so far.
RECURSIVE NewMerchants(_, _)
NewMerchants(transactions, baselineMerchants) ==
  IF transactions = <<>> THEN <<>>
  ELSE
    LET tx == transactions[1]
        norm == NormalizeMerchant(tx.merchant)
    IN  IF norm \notin baselineMerchants
        THEN <<[type |-> "new_merchant", severity |-> "low",
                description |-> <<"First-time merchant">>,
                transaction |-> AnomalyTx(tx)]>>
             \o NewMerchants(Tail(transactions), MarkSeen(baselineMerchants, norm))
        ELSE NewMerchants(Tail(transactions), baselineMerchants)

SevOrder(severity) ==
  IF severity = "high" THEN 0 ELSE IF severity = "medium" THEN 1 ELSE 2

\* More days than any date of the model: the weight of the severity in the
\* key of the final sort (severity first, then date descending).
DateSpan == 100000

SortAnomalies(anomalies) ==
  SortByKeys(anomalies,
             [i \in DOMAIN anomalies |->
                SevOrder(anomalies[i].severity) * DateSpan - anomalies[i].transaction.date])

DetectAnomalies(transactions, options) ==
  IF Len(transactions) = 0 THEN <<>>
  ELSE
    LET stdDevThreshold == OrElse(options.stdDevThreshold, RInt(2))
        duplicateWindowDays == OrElse(options.duplicateWindowDays, 3)
        minTxForStats == OrElse(options.minTransactionsForStats, 3)
        baseline == OrElse(options.historicalTransactions, transactions)
        unusual == UnusualAmounts(transactions, baseline, stdDevThreshold, minTxForStats)
        duplicates == Duplicates(SortByDate(transactions).sorted, 1, duplicateWindowDays)
        newMerchants ==
          IF options.historicalTransactions # Undefined
          THEN NewMerchants(transactions,
                 {NormalizeMerchant(options.historicalTransactions[1][i].merchant) :
                    i \in DOMAIN options.historicalTransactions[1]})
          ELSE <<>>
    IN  SortAnomalies(unusual \o duplicates \o newMerchants)

\* What the call leaves in the caller's array.
AnomalyTransactionsAfter(transactions) ==
  IF Len(transactions) = 0 THEN transactions ELSE SortByDate(transactions).arr

\* ------------------------------------------- inputs of the anomaly detector

MaxAnomalyTx == 3

AnomalyTxs ==
  { Tx(x[1], x[2], x[3], x[4], CategoryObj("Food")) :
      x \in { <<"1", 0, -1000, <<"A">>>>, <<"2", 3, -1000, <<" ", "a">>>>,
              <<"3", 4, -1000, <<"A">>>>, <<"1", 1, -1000, <<"A">>>>,
              <<"4", 2, -5000, <<"a", " ">>>>, <<"5", 2, -1000, <<"B">>>>,
              <<"6", 0, 1000, <<"A">>>> } }

AnomalyHistory ==
  <<Tx("h1", 0, -1000, <<"a">>, CategoryObj("Food")),
    Tx("h2", 0, -1100, <<"A">>, CategoryObj("Food")),
    Tx("h3", 0, -900, <<"A", " ">>, CategoryObj("Food"))>>

AnomalyOptions ==
  [stdDevThreshold : {Undefined, <<RInt(1)>>},
   duplicateWindowDays : {Undefined, <<0>>},
   minTransactionsForStats : {Undefined, <<2>>},
   historicalTransactions : {Undefined, <<AnomalyHistory>>}]

InitAnomalies ==
  /\ fn = "detectAnomalies"
  /\ \E txs \in SeqUpTo(AnomalyTxs, MaxAnomalyTx), options \in AnomalyOptions :
       args = [transactions |-> txs, options |-> options]
  /\ today = FirstToday
  /\ pc = "ready"
  /\ result = NoResult
  /\ ServerIdle

CallAnomalies ==
  /\ pc = "ready"
  /\ fn = "detectAnomalies"
  /\ result' = DetectAnomalies(args.transactions, args.options)
  /\ args' = [args EXCEPT !.transactions = AnomalyTransactionsAfter(@)]
  /\ pc' = "done"
  /\ UNCHANGED <<fn, today>>
  /\ UNCHANGED serverVars

SpecAnomalies == InitAnomalies /\ [][CallAnomalies]_vars

AnomaliesDone == pc = "done" /\ fn = "detectAnomalies"


\* The pairs of positions of the scanned array that the claim calls
\* duplicates, and the position of the later transaction of a pair (of two
\* transactions of one day, the one further back in the array).
AnomalyWindow == OrElse(args.options.duplicateWindowDays, 3)

QualifyingPairs ==
  LET txs == args.transactions
  IN  { p \in (DOMAIN txs) \X (DOMAIN txs) :
          /\ p[1] < p[2]
          /\ txs[p[1]].id # txs[p[2]].id
          /\ NormalizeMerchant(txs[p[1]].merchant) = NormalizeMerchant(txs[p[2]].merchant)
          /\ txs[p[1]].amount = txs[p[2]].amount
          /\ Abs(txs[p[1]].date - txs[p[2]].date) <= AnomalyWindow }

LaterOf(p) ==
  IF args.transactions[p[1]].date > args.transactions[p[2]].date THEN p[1] ELSE p[2]

DuplicateAnomalies == SelectSeq(result, LAMBDA a : a.type = "duplicate")

\* C5: detectAnomalies emits exactly one 'duplicate' anomaly, of severity
\* medium and carrying the later transaction, for every pair of scanned
\* transactions with different ids, the same normalized merchant and the same
\* signed amount at most duplicateWindowDays apart, and none for any other
\* pair: the early break skips no qualifying pair.
C5_OneDuplicatePerPair ==
  AnomaliesDone =>
    /\ Len(DuplicateAnomalies) = Cardinality(QualifyingPairs)
    /\ \A i \in DOMAIN DuplicateAnomalies : DuplicateAnomalies[i].severity = "medium"
    /\ \A k \in DOMAIN args.transactions :
         Cardinality({i \in DOMAIN DuplicateAnomalies :
                        DuplicateAnomalies[i].transaction = AnomalyTx(args.transactions[k])})
         = Cardinality({p \in QualifyingPairs :
                          AnomalyTx(args.transactions[LaterOf(p)])
                          = AnomalyTx(args.transactions[k])})

\* A scan of an array that is not in date order, with a duplicate exactly
\* duplicateWindowDays apart and a same-merchant pair beyond the window.
C5_Witness ==
  /\ AnomaliesDone
  /\ \E i, j \in DOMAIN args.transactions :
       i < j /\ args.transactions[i].date > args.transactions[j].date
  /\ \E i \in DOMAIN DuplicateAnomalies :
       DuplicateAnomalies[i].description[3] - DuplicateAnomalies[i].description[2]
       = AnomalyWindow
  /\ AnomalyWindow = 3
  /\ \E i, j \in DOMAIN args.transactions :
       /\ IsDuplicateOf(args.transactions[i], args.transactions[j])
       /\ Abs(args.transactions[i].date - args.transactions[j].date) > AnomalyWindow


\* ============================================================== dates

\* Day 0 is January 1st of BaseYear.
BaseYear == 2025

IsLeapYear(y) == (y % 4 = 0 /\ y % 100 # 0) \/ y % 400 = 0

DaysInMonth(y, m) ==
  IF m = 2 THEN (IF IsLeapYear(y) THEN 29 ELSE 28)
  ELSE IF m \in {4, 6, 9, 11} THEN 30 ELSE 31

DaysInYear(y) == IF IsLeapYear(y) THEN 366 ELSE 365

RECURSIVE DaysBeforeYear(_)
DaysBeforeYear(y) == IF y <= BaseYear THEN 0 ELSE DaysBeforeYear(y - 1) + DaysInYear(y - 1)

RECURSIVE DaysBeforeMonth(_, _)
DaysBeforeMonth(y, m) == IF m <= 1 THEN 0 ELSE DaysBeforeMonth(y, m - 1) + DaysInMonth(y, m - 1)

\* The day a Date holds after setFullYear/setMonth/setDate left it with year
\* y, month m (1-based, possibly beyond 12) and day-of-month d (possibly
\* beyond the month's end): the excess carries over, as Date normalizes it.
OrdinalOf(y, m, d) ==
  LET yy == y + ((m - 1) \div 12)
      mm == ((m - 1) % 12) + 1
  IN  DaysBeforeYear(yy) + DaysBeforeMonth(yy, mm) + (d - 1)

RECURSIVE YearFrom(_, _)
YearFrom(y, n) == IF n < DaysInYear(y) THEN <<y, n>> ELSE YearFrom(y + 1, n - DaysInYear(y))

RECURSIVE MonthFrom(_, _, _)
MonthFrom(y, m, n) ==
  IF n < DaysInMonth(y, m) THEN <<m, n>> ELSE MonthFrom(y, m + 1, n - DaysInMonth(y, m))

\* The year, month and day-of-month of a day (getFullYear, getMonth() + 1,
\* getDate; the fields of the "YYYY-MM-DD" string).
YMD(n) ==
  LET yr == YearFrom(BaseYear, n)
      mo == MonthFrom(yr[1], 1, yr[2])
  IN  [year |-> yr[1], month |-> mo[1], day |-> mo[2] + 1]

\* date.slice(0, 7), the "YYYY-MM" label, as year * 12 + (month - 1): the
\* order of the labels as strings is the order of these numbers.
MonthLabel(n) == YMD(n).year * 12 + (YMD(n).month - 1)

\* ========================================================= detectTrends

\* the operands of the numerator swapped
LinearRegressionSlopeSwapped(xs, ys) ==
  LET n == Len(xs)
      sumX == RSumSeq(xs)
      sumY == RSumSeq(ys)
      sumXY == RSumSeq([i \in DOMAIN xs |-> RMul(xs[i], ys[i])])
      sumXX == RSumSeq([i \in DOMAIN xs |-> RMul(xs[i], xs[i])])
      denominator == RSub(RMul(RInt(n), sumXX), RMul(sumX, sumX))
  IN  IF n < 2 THEN RZero
      ELSE IF RIsZero(denominator) THEN RZero
      ELSE RDiv(RSub(RMul(sumX, sumY), RMul(RInt(n), sumXY)), denominator)

LinearRegressionSlope(xs, ys) ==
  LET n == Len(xs)
      sumX == RSumSeq(xs)
      sumY == RSumSeq(ys)
      sumXY == RSumSeq([i \in DOMAIN xs |-> RMul(xs[i], ys[i])])
      sumXX == RSumSeq([i \in DOMAIN xs |-> RMul(xs[i], xs[i])])
      denominator == RSub(RMul(RInt(n), sumXX), RMul(sumX, sumX))
  IN  IF n < 2 THEN RZero
      ELSE IF RIsZero(denominator) THEN RZero
      ELSE RDiv(RSub(RMul(RInt(n), sumXY), RMul(sumX, sumY)), denominator)

\* tx.category?.name ?? "Uncategorized" (the allow-list test)
CategoryOrDefault(tx) ==
  IF tx.category.kind # "object" THEN "Uncategorized" ELSE tx.category.name

\* tx.category?.name || "Uncategorized" (the grouping key)
CategoryOrUncategorized(tx) ==
  IF tx.category.kind # "object" \/ tx.category.name = "" THEN "Uncategorized"
  ELSE tx.category.name

TrendFilter(transactions, options) ==
  LET expenses == SelectSeq(transactions, LAMBDA tx : tx.amount < 0)
      fromStart == IF options.startDate # Undefined
                   THEN SelectSeq(expenses, LAMBDA tx : tx.date >= options.startDate[1])
                   ELSE expenses
      toEnd == IF options.endDate # Undefined
               THEN SelectSeq(fromStart, LAMBDA tx : tx.date <= options.endDate[1])
               ELSE fromStart
  IN  IF options.categories # Undefined /\ Len(options.categories[1]) > 0
      THEN SelectSeq(toEnd, LAMBDA tx : CategoryOrDefault(tx) \in Range(options.categories[1]))
      ELSE toEnd

\* The keys of a Map in insertion order: the first occurrences, in order.
RECURSIVE InsertionOrder(_)
InsertionOrder(keys) ==
  IF keys = <<>> THEN <<>>
  ELSE LET before == InsertionOrder(SubSeq(keys, 1, Len(keys) - 1))
       IN  IF keys[Len(keys)] \in Range(before) THEN before
           ELSE before \o <<keys[Len(keys)]>>

\* the monthMap entries left in insertion order
DataPointsUnsorted(filtered, category) ==
  LET mine == SelectSeq(filtered, LAMBDA tx : CategoryOrUncategorized(tx) = category)
      months == InsertionOrder([i \in DOMAIN mine |-> MonthLabel(mine[i].date)])
  IN  [k \in DOMAIN months |->
         [period |-> months[k],
          amount |-> Round2(Cents(SumCents([i \in DOMAIN mine |->
                        IF MonthLabel(mine[i].date) = months[k]
                        THEN Abs(mine[i].amount) ELSE 0])))]]

\* The data points of one category: its monthMap entries, amounts rounded,
\* sorted by period.
DataPoints(filtered, category) ==
  LET mine == SelectSeq(filtered, LAMBDA tx : CategoryOrUncategorized(tx) = category)
      months == InsertionOrder([i \in DOMAIN mine |-> MonthLabel(mine[i].date)])
      unsorted == [k \in DOMAIN months |->
                     [period |-> months[k],
                      amount |-> Round2(Cents(SumCents([i \in DOMAIN mine |->
                                    IF MonthLabel(mine[i].date) = months[k]
                                    THEN Abs(mine[i].amount) ELSE 0])))]]
  IN  SortByKeys(unsorted, [k \in DOMAIN unsorted |-> unsorted[k].period])

ChangePercent(dataPoints) ==
  LET n == Len(dataPoints)
      xs == [i \in DOMAIN dataPoints |-> RInt(i - 1)]
      ys == [i \in DOMAIN dataPoints |-> dataPoints[i].amount]
      slope == LinearRegressionSlope(xs, ys)
      meanY == RDiv(RSumSeq(ys), RInt(n))
      firstFitted == RSub(meanY, RMul(slope, Rat(n - 1, 2)))
      totalChange == RMul(slope, RInt(n - 1))
  IN  IF ~RIsZero(firstFitted)
      THEN Round2(RMul(RDiv(totalChange, RAbs(firstFitted)), RInt(100)))
      ELSE RZero

Direction(changePercent, stableThreshold) ==
  IF RLt(RAbs(changePercent), stableThreshold) THEN "stable"
  ELSE IF RLt(RZero, changePercent) THEN "increasing"
  ELSE "decreasing"

RECURSIVE TrendsOf(_, _, _, _)
TrendsOf(categories, filtered, minMonths, stableThreshold) ==
  IF categories = <<>> THEN <<>>
  ELSE
    LET dataPoints == DataPoints(filtered, categories[1])
        rest == TrendsOf(Tail(categories), filtered, minMonths, stableThreshold)
    IN  IF Len(dataPoints) < minMonths THEN rest
        ELSE <<[category |-> categories[1],
                direction |-> Direction(ChangePercent(dataPoints), stableThreshold),
                changePercent |-> ChangePercent(dataPoints),
                dataPoints |-> dataPoints]>> \o rest

DetectTrends(transactions, options) ==
  LET minMonths == OrElse(options.minMonths, 3)
      stableThreshold == OrElse(options.stableThreshold, RInt(5))
      filtered == TrendFilter(transactions, options)
  IN  IF Len(filtered) = 0 THEN <<>>
      ELSE
        LET categories == InsertionOrder([i \in DOMAIN filtered |->
                                            CategoryOrUncategorized(filtered[i])])
            trends == TrendsOf(categories, filtered, minMonths, stableThreshold)
        IN  SortByKeys(trends, [i \in DOMAIN trends |->
                                  -CentsOf(RAbs(trends[i].changePercent))])

\* --------------------------------------------- inputs of the trend detector

MaxTrendTx == 3

\* The 15th of January, February and March of BaseYear, amounts whose
\* monthly totals rise by 1%, by several hundred percent, or from a fitted
\* first value of 0; an income, a second category, a missing category.
TrendTxs ==
  { Tx("t", d, a, <<"s">>, CategoryObj("Food")) :
      d \in {14, 45, 73}, a \in {-10000, -10100, -70200} }
  \cup { Tx("t", 14, 5000, <<"s">>, CategoryObj("Food")),
         Tx("t", 45, -3000, <<"s">>, CategoryObj("Rent")),
         Tx("t", 73, -2000, <<"s">>, CategoryNull) }

TrendOptionsOf(minMonths, stableThreshold, categories, startDate, endDate) ==
  [minMonths |-> minMonths, stableThreshold |-> stableThreshold,
   categories |-> categories, startDate |-> startDate, endDate |-> endDate]

TrendOptions ==
  { TrendOptionsOf(Undefined, Undefined, Undefined, Undefined, Undefined),
    TrendOptionsOf(<<2>>, Undefined, Undefined, Undefined, Undefined),
    TrendOptionsOf(Undefined, <<RInt(0)>>, Undefined, Undefined, Undefined),
    TrendOptionsOf(<<2>>, <<RInt(0)>>, Undefined, Undefined, Undefined),
    TrendOptionsOf(<<2>>, Undefined, << <<"Food", "Uncategorized">> >>, Undefined, Undefined),
    TrendOptionsOf(<<2>>, Undefined, Undefined, <<40>>, <<80>>) }

InitTrends ==
  /\ fn = "detectTrends"
  /\ \E txs \in SeqUpTo(TrendTxs, MaxTrendTx), options \in TrendOptions :
       args = [transactions |-> txs, options |-> options]
  /\ today = FirstToday
  /\ pc = "ready"
  /\ result = NoResult
  /\ ServerIdle

CallTrends ==
  /\ pc = "ready"
  /\ fn = "detectTrends"
  /\ result' = DetectTrends(args.transactions, args.options)
  /\ args' = args
  /\ pc' = "done"
  /\ UNCHANGED <<fn, today>>
  /\ UNCHANGED serverVars

SpecTrends == InitTrends /\ [][CallTrends]_vars

TrendsDone == pc = "done" /\ fn = "detectTrends"

StrictlyIncreasing(dataPoints) ==
  \A i \in 1..(Len(dataPoints) - 1) : RLt(dataPoints[i].amount, dataPoints[i + 1].amount)
StrictlyDecreasing(dataPoints) ==
  \A i \in 1..(Len(dataPoints) - 1) : RLt(dataPoints[i + 1].amount, dataPoints[i].amount)

TrendThreshold == OrElse(args.options.stableThreshold, RInt(5))

\* C6 (as claimed): a category whose monthly totals rise from month to month
\* over at least minMonths months is reported "increasing" with
\* changePercent > 0, one whose totals fall "decreasing" with
\* changePercent < 0.
C6_MonotonicSeriesDirection ==
  TrendsDone =>
    \A i \in DOMAIN result :
      /\ StrictlyIncreasing(result[i].dataPoints) =>
           result[i].direction = "increasing" /\ RLt(RZero, result[i].changePercent)
      /\ StrictlyDecreasing(result[i].dataPoints) =>
           result[i].direction = "decreasing" /\ RLt(result[i].changePercent, RZero)

\* C6 (amended): for rising monthly totals changePercent >= 0 and the
\* direction is "increasing" exactly when changePercent > 0 and
\* changePercent >= stableThreshold; for falling totals changePercent <= 0
\* and the direction is "decreasing" exactly when |changePercent| >=
\* stableThreshold. Below the threshold the direction is "stable".
C6_MonotonicSeriesDirectionAboveThreshold ==
  TrendsDone =>
    \A i \in DOMAIN result :
      LET t == result[i] IN
      /\ StrictlyIncreasing(t.dataPoints) =>
           /\ RLe(RZero, t.changePercent)
           /\ t.direction = "increasing" <=>
                (RLt(RZero, t.changePercent) /\ RLe(TrendThreshold, t.changePercent))
           /\ RLt(t.changePercent, TrendThreshold) => t.direction = "stable"
      /\ StrictlyDecreasing(t.dataPoints) =>
           /\ RLe(t.changePercent, RZero)
           /\ t.direction = "decreasing" <=> RLe(TrendThreshold, RAbs(t.changePercent))
           /\ RLt(RAbs(t.changePercent), TrendThreshold) => t.direction = "stable"

\* Under the default options: three rising months reported "increasing", and
\* three falling months reported "decreasing".
C6_Witness ==
  /\ TrendsDone
  /\ args.options.minMonths = Undefined /\ args.options.stableThreshold = Undefined
  /\ \E i \in DOMAIN result :
       /\ Len(result[i].dataPoints) = 3
       /\ \/ StrictlyIncreasing(result[i].dataPoints) /\ result[i].direction = "increasing"
          \/ StrictlyDecreasing(result[i].dataPoints) /\ result[i].direction = "decreasing"


\* ================================================= analyzeSubscriptions

\* the tolerance taken as exclusive
IsWithinStrict(value, target, tolerance) ==
  RLt(RAbs(RSub(value, RInt(target))), RInt(tolerance))

IsWithin(value, target, tolerance) ==
  RLe(RAbs(RSub(value, RInt(target))), RInt(tolerance))

FrequencyDays(freq) ==
  IF freq = "weekly" THEN 7 ELSE IF freq = "monthly" THEN 30
  ELSE IF freq = "quarterly" THEN 91 ELSE 365

\* The fallback of detectFrequency: the closest candidate, the earlier of two
\* equally close ones.
RECURSIVE ClosestFrequency(_, _, _)
ClosestFrequency(avgInterval, best, candidates) ==
  IF candidates = <<>> THEN best
  ELSE IF RLt(RAbs(RSub(avgInterval, RInt(FrequencyDays(candidates[1])))),
              RAbs(RSub(avgInterval, RInt(FrequencyDays(best)))))
       THEN ClosestFrequency(avgInterval, candidates[1], Tail(candidates))
       ELSE ClosestFrequency(avgInterval, best, Tail(candidates))

DetectFrequency(sorted, tolerance) ==
  IF Len(sorted) < 2 THEN "monthly"
  ELSE
    LET intervals == [i \in 1..(Len(sorted) - 1) |->
                        RInt(DaysBetweenAbs(sorted[i].date, sorted[i + 1].date))]
        avgInterval == RDiv(RSumSeq(intervals), RInt(Len(intervals)))
    IN  IF IsWithin(avgInterval, 7, tolerance) THEN "weekly"
        ELSE IF IsWithin(avgInterval, 30, tolerance + 3) THEN "monthly"
        ELSE IF IsWithin(avgInterval, 14, tolerance) THEN "weekly"
        ELSE IF IsWithin(avgInterval, 91, tolerance + 10) THEN "quarterly"
        ELSE IF IsWithin(avgInterval, 365, tolerance + 30) THEN "annual"
        ELSE ClosestFrequency(avgInterval, "weekly",
                              <<"weekly", "monthly", "quarterly", "annual">>)

AnnualMultiplier(freq) ==
  IF freq = "weekly" THEN 52 ELSE IF freq = "monthly" THEN 12
  ELSE IF freq = "quarterly" THEN 4 ELSE 1

\* any two different amounts count as a change
HasPriceChangedAnyDifference(history, thresholdPercent) ==
  IF Len(history) < 2 THEN FALSE
  ELSE history[Len(history)].amount # history[Len(history) - 1].amount

HasPriceChanged(history, thresholdPercent) ==
  IF Len(history) < 2 THEN FALSE
  ELSE
    LET latest == history[Len(history)].amount
        previous == history[Len(history) - 1].amount
    IN  IF RIsZero(previous) THEN ~RIsZero(latest)
        ELSE RLe(thresholdPercent,
                 RAbs(RMul(RDiv(RSub(latest, previous), previous), RInt(100))))

\* advanceDate of subscriptions.ts
AdvanceDate(date, frequency) ==
  LET d == YMD(date)
  IN  IF frequency = "weekly" THEN OrdinalOf(d.year, d.month, d.day + 7)
      ELSE IF frequency = "monthly" THEN OrdinalOf(d.year, d.month + 1, d.day)
      ELSE IF frequency = "quarterly" THEN OrdinalOf(d.year, d.month + 3, d.day)
      ELSE OrdinalOf(d.year + 1, d.month, d.day)

\* const sorted = [...group].sort((a, b) => a.date.localeCompare(b.date))
SortGroup(group) == SortedCopy(group, [i \in DOMAIN group |-> group[i].date])

SubscriptionOf(group, dayTolerance, priceChangeThreshold) ==
  LET sorted == SortGroup(group).sorted
      priceHistory == [i \in DOMAIN sorted |->
                         [date |-> sorted[i].date,
                          amount |-> Round2(RAbs(AmountOf(sorted[i])))]]
      frequency == DetectFrequency(sorted, dayTolerance)
      latestAmount == Round2(RAbs(AmountOf(sorted[Len(sorted)])))
  IN  [merchant |-> sorted[Len(sorted)].merchant,
       amount |-> latestAmount,
       frequency |-> frequency,
       nextExpected |-> AdvanceDate(sorted[Len(sorted)].date, frequency),
       annualCost |-> Round2(RMul(RInt(AnnualMultiplier(frequency)), latestAmount)),
       priceHistory |-> priceHistory,
       priceChanged |-> HasPriceChanged(priceHistory, priceChangeThreshold)]

\* The merchantGroups entry of a key: the rows of the merchant, in input order.
MerchantGroup(recurringTransactions, key) ==
  SelectSeq(recurringTransactions, LAMBDA tx : NormalizeMerchant(tx.merchant) = key)

AnalyzeSubscriptions(recurringTransactions, options) ==
  LET dayTolerance == OrElse(options.dayTolerance, 5)
      priceChangeThreshold == OrElse(options.priceChangeThreshold, RInt(1))
  IN  IF Len(recurringTransactions) = 0
      THEN [totalMonthly |-> RZero, totalAnnual |-> RZero,
            subscriptions |-> <<>>, recentChanges |-> <<>>]
      ELSE
        LET keys == InsertionOrder([i \in DOMAIN recurringTransactions |->
                       NormalizeMerchant(recurringTransactions[i].merchant)])
            unsorted == [k \in DOMAIN keys |->
                           SubscriptionOf(MerchantGroup(recurringTransactions, keys[k]),
                                          dayTolerance, priceChangeThreshold)]
            subscriptions == SortByKeys(unsorted, [k \in DOMAIN unsorted |->
                                                      -CentsOf(unsorted[k].annualCost)])
            totalAnnual == Round2(RSumSeq([k \in DOMAIN subscriptions |->
                                             subscriptions[k].annualCost]))
        IN  [totalMonthly |-> Round2(RDiv(totalAnnual, RInt(12))),
             totalAnnual |-> totalAnnual,
             subscriptions |-> subscriptions,
             recentChanges |-> SelectSeq(subscriptions, LAMBDA sub : sub.priceChanged)]

\* What the call leaves in the caller's array: each group is a new array and
\* is sorted through a copy.
RecurringAfter(recurringTransactions) == recurringTransactions

\* ---------------------------------------- inputs of the subscription analyzer

MaxRecurringTx == 3

Recurring(id, date, amount, merchant) ==
  [id |-> id, date |-> date, amount |-> amount, merchant |-> merchant]

\* Rows of merchant "A" 30 days apart at $10.00, $10.05 (0.5% more) and
\* $15.00; one spelled differently; a row of another merchant.
RecurringTxs ==
  { Recurring("r", d, a, <<"A">>) : d \in {0, 30, 60}, a \in {-1000, -1005} }
  \cup { Recurring("r", 60, -1500, <<"A">>),
         Recurring("r", 37, -1000, <<" ", "a">>), Recurring("r", 7, -500, <<"B">>) }

SubscriptionOptions ==
  [dayTolerance : {Undefined, <<25>>},
   priceChangeThreshold : {Undefined, <<RInt(0)>>}]

InitSubscriptions ==
  /\ fn = "analyzeSubscriptions"
  /\ \E txs \in SeqUpTo(RecurringTxs, MaxRecurringTx), options \in SubscriptionOptions :
       args = [recurringTransactions |-> txs, options |-> options]
  /\ today = FirstToday
  /\ pc = "ready"
  /\ result = NoResult
  /\ ServerIdle

CallSubscriptions ==
  /\ pc = "ready"
  /\ fn = "analyzeSubscriptions"
  /\ result' = AnalyzeSubscriptions(args.recurringTransactions, args.options)
  /\ args' = [args EXCEPT !.recurringTransactions = RecurringAfter(@)]
  /\ pc' = "done"
  /\ UNCHANGED <<fn, today>>
  /\ UNCHANGED serverVars

SpecSubscriptions == InitSubscriptions /\ [][CallSubscriptions]_vars

SubscriptionsDone == pc = "done" /\ fn = "analyzeSubscriptions"

\* The observations of the merchant of a returned subscription, in input
\* order, and the same in chronological order.
ObservationsOf(sub) ==
  MerchantGroup(args.recurringTransactions, NormalizeMerchant(sub.merchant))
ChronologicalOf(sub) ==
  SortByKeys(ObservationsOf(sub), [i \in DOMAIN ObservationsOf(sub) |->
                                     ObservationsOf(sub)[i].date])

\* Two observations 30 days apart at one amount open the history.
StartsMonthlySameAmount(obs) ==
  /\ Len(obs) >= 2
  /\ obs[2].date - obs[1].date = 30
  /\ obs[1].amount = obs[2].amount

\* A third observation, later than the second, at a different amount.
ThirdAtDifferentAmount(obs) ==
  /\ Len(obs) = 3
  /\ obs[3].date > obs[2].date
  /\ obs[3].amount # obs[2].amount

PriceHistoryIsChronological(sub) ==
  /\ Len(sub.priceHistory) = Len(ObservationsOf(sub))
  /\ \A i \in DOMAIN sub.priceHistory :
       /\ sub.priceHistory[i].date = ChronologicalOf(sub)[i].date
       /\ sub.priceHistory[i].amount = RAbs(AmountOf(ChronologicalOf(sub)[i]))
  /\ \A i \in 1..(Len(sub.priceHistory) - 1) :
       sub.priceHistory[i].date <= sub.priceHistory[i + 1].date

DefaultSubscriptionOptions ==
  args.options.dayTolerance = Undefined /\ args.options.priceChangeThreshold = Undefined

\* C7 (as claimed), under the default options: two observations 30 days
\* apart at the same amount give frequency "monthly" and priceChanged false;
\* a third, later observation at a different amount makes priceChanged true;
\* priceHistory lists every observation in chronological order.
C7_PriceChangeOnDifferentAmount ==
  (SubscriptionsDone /\ DefaultSubscriptionOptions) =>
    \A k \in DOMAIN result.subscriptions :
      LET sub == result.subscriptions[k]
          obs == ChronologicalOf(sub)
      IN  /\ (StartsMonthlySameAmount(obs) /\ Len(obs) = 2) =>
               sub.frequency = "monthly" /\ ~sub.priceChanged
          /\ (StartsMonthlySameAmount(obs) /\ ThirdAtDifferentAmount(obs)) =>
               sub.priceChanged
          /\ PriceHistoryIsChronological(sub)

\* The percent change between the last two observations, as the code
\* measures it.
LastChangePercent(obs) ==
  RAbs(RMul(RDiv(RSub(RAbs(AmountOf(obs[Len(obs)])), RAbs(AmountOf(obs[Len(obs) - 1]))),
                 RAbs(AmountOf(obs[Len(obs) - 1]))), RInt(100)))

SubscriptionThreshold == OrElse(args.options.priceChangeThreshold, RInt(1))
SubscriptionTolerance == OrElse(args.options.dayTolerance, 5)

\* C7 (amended): two observations 30 days apart at the same amount give
\* frequency "monthly" (for a dayTolerance below 23, as the default 5) and
\* priceChanged false (for a priceChangeThreshold above 0, as the default 1);
\* a third, later observation at a different amount makes priceChanged true
\* exactly when it differs from the second by at least priceChangeThreshold
\* percent; priceHistory lists every observation in chronological order.
C7_PriceChangeAtThreshold ==
  SubscriptionsDone =>
    \A k \in DOMAIN result.subscriptions :
      LET sub == result.subscriptions[k]
          obs == ChronologicalOf(sub)
      IN  /\ (StartsMonthlySameAmount(obs) /\ Len(obs) = 2) =>
               /\ SubscriptionTolerance < 23 => sub.frequency = "monthly"
               /\ RLt(RZero, SubscriptionThreshold) => ~sub.priceChanged
          /\ (StartsMonthlySameAmount(obs) /\ ThirdAtDifferentAmount(obs)) =>
               (sub.priceChanged <=> RLe(SubscriptionThreshold, LastChangePercent(obs)))
          /\ PriceHistoryIsChronological(sub)

\* Under the default options: rows given out of order, two observations 30
\* days apart at one amount, and a later third one at another amount that is
\* flagged.
C7_Witness ==
  /\ SubscriptionsDone /\ DefaultSubscriptionOptions
  /\ \E k \in DOMAIN result.subscriptions :
       LET sub == result.subscriptions[k]
           obs == ChronologicalOf(sub)
       IN  /\ StartsMonthlySameAmount(obs) /\ ThirdAtDifferentAmount(obs)
           /\ sub.priceChanged
           /\ ObservationsOf(sub) # obs


\* ===================================================== forecastCashflow

Account(id, currentBalance, isAsset) ==
  [id |-> id, currentBalance |-> currentBalance, isAsset |-> isAsset]

RecurringItem(id, merchant, amount, frequency, nextDate) ==
  [id |-> id, merchant |-> merchant, amount |-> amount,
   frequency |-> frequency, nextDate |-> nextDate]

\* a.isAsset is an optional boolean: !a.isAsset holds unless it is true
IsAsset(a) == OrElse(a.isAsset, FALSE)

\* the accountIds option left out of the selection
RelevantAccountsNonAssetOnly(accounts, options) ==
  SelectSeq(accounts, LAMBDA a : ~IsAsset(a))

RelevantAccounts(accounts, options) ==
  IF options.accountIds # Undefined
  THEN SelectSeq(accounts, LAMBDA a : a.id \in Range(options.accountIds[1]))
  ELSE SelectSeq(accounts, LAMBDA a : ~IsAsset(a))

CurrentBalance(accounts, options) ==
  RSumSeq([i \in DOMAIN RelevantAccounts(accounts, options) |->
             Cents(RelevantAccounts(accounts, options)[i].currentBalance)])

DailyEquivalent(amount, frequency) ==
  RDiv(amount, RInt(IF frequency = "weekly" THEN 7
                    ELSE IF frequency = "biweekly" THEN 14
                    ELSE IF frequency = "monthly" THEN 30
                    ELSE IF frequency = "quarterly" THEN 91 ELSE 365))

RecurringIncome(recurringItems) ==
  LET incomes == SelectSeq(recurringItems, LAMBDA r : r.amount > 0)
  IN  RSumSeq([i \in DOMAIN incomes |->
                 DailyEquivalent(AmountOf(incomes[i]), incomes[i].frequency)])

RecurringExpenses(recurringItems) ==
  LET outgoings == SelectSeq(recurringItems, LAMBDA r : r.amount < 0)
  IN  RSumSeq([i \in DOMAIN outgoings |->
                 RAbs(DailyEquivalent(AmountOf(outgoings[i]), outgoings[i].frequency))])

RecurringMerchantNorms(recurringItems, options) ==
  { NormalizeMerchant(recurringItems[i].merchant) : i \in DOMAIN recurringItems }
  \cup (IF options.recurringMerchantIds = Undefined THEN {}
        ELSE { NormalizeMerchant(id) : id \in options.recurringMerchantIds[1] })

DiscretionaryExpenses(transactions, recurringItems, options) ==
  SelectSeq(transactions,
    LAMBDA tx : /\ tx.amount < 0
                /\ NormalizeMerchant(tx.merchant)
                     \notin RecurringMerchantNorms(recurringItems, options))

\* computeDailyStats, with the variance where the code has its square root
\* dailyStdDev.
ComputeDailyStats(expenses) ==
  IF Len(expenses) = 0 THEN [dailyAvg |-> RZero, variance |-> RZero]
  ELSE
    LET dates == InsertionOrder([i \in DOMAIN expenses |-> expenses[i].date])
        values == [k \in DOMAIN dates |->
                     RSumSeq([i \in DOMAIN expenses |->
                                IF expenses[i].date = dates[k]
                                THEN RAbs(AmountOf(expenses[i])) ELSE RZero])]
        n == Len(values)
        mean == RDiv(RSumSeq(values), RInt(n))
        squares == RSumSeq([k \in DOMAIN values |->
                              RMul(RSub(values[k], mean), RSub(values[k], mean))])
    IN  [dailyAvg |-> mean,
         variance |-> IF n > 1 THEN RDiv(squares, RInt(n - 1)) ELSE RZero]

AdvanceByFrequency(date, frequency) ==
  LET d == YMD(date)
  IN  IF frequency = "weekly" THEN OrdinalOf(d.year, d.month, d.day + 7)
      ELSE IF frequency = "biweekly" THEN OrdinalOf(d.year, d.month, d.day + 14)
      ELSE IF frequency = "monthly" THEN OrdinalOf(d.year, d.month + 1, d.day)
      ELSE IF frequency = "quarterly" THEN OrdinalOf(d.year, d.month + 3, d.day)
      ELSE OrdinalOf(d.year + 1, d.month, d.day)

AddDays(date, days) ==
  LET d == YMD(date) IN OrdinalOf(d.year, d.month, d.day + days)

\* while (current < start) current = advanceByFrequency(current, ...)
RECURSIVE AdvanceToStart(_, _, _)
AdvanceToStart(current, frequency, start) ==
  IF current < start
  THEN AdvanceToStart(AdvanceByFrequency(current, frequency), frequency, start)
  ELSE current

\* while (current <= end) { dates.push(current); current = advance... }
RECURSIVE OccurrencesUpTo(_, _, _)
OccurrencesUpTo(current, frequency, end) ==
  IF current <= end
  THEN <<current>> \o OccurrencesUpTo(AdvanceByFrequency(current, frequency), frequency, end)
  ELSE <<>>

\* the first occurrence of the window only
GenerateOccurrencesFirstOnly(item, start, end) ==
  LET first == AdvanceToStart(item.nextDate, item.frequency, start)
  IN  IF first <= end THEN <<first>> ELSE <<>>

GenerateOccurrences(item, start, end) ==
  OccurrencesUpTo(AdvanceToStart(item.nextDate, item.frequency, start),
                  item.frequency, end)

\* The event map, in cents: for each date of the window the sum of the
\* amounts of the items that fall on it (0 for a date the map lacks).
BuildRecurringEventMap(items, startDate, days) ==
  LET endDate == AddDays(startDate, days)
      occurrences == [i \in DOMAIN items |->
                        Range(GenerateOccurrences(items[i], startDate, endDate))]
  IN  [date \in startDate..endDate |->
         SumCents([i \in DOMAIN items |->
                     IF date \in occurrences[i] THEN items[i].amount ELSE 0])]

FloorOf(a) == a[1] \div a[2]

\* The largest r in lo..hi with r * r <= n, when lo is such an r.
RECURSIVE ISqrtBetween(_, _, _)
ISqrtBetween(n, lo, hi) ==
  IF lo >= hi THEN lo
  ELSE LET mid == (lo + hi + 1) \div 2
       IN  IF mid * mid <= n THEN ISqrtBetween(n, mid, hi)
           ELSE ISqrtBetween(n, lo, mid - 1)

\* the integer part of the square root of a rational w >= 0 (below 2^31)
ISqrt(w) ==
  ISqrtBetween(FloorOf(w), 0, IF FloorOf(w) < 46340 THEN FloorOf(w) ELSE 46340)

\* sqrt(w) <= x, for rationals w >= 0 and x
SqrtLe(w, x) == RLe(RZero, x) /\ RLe(w, RMul(x, x))

\* Math.round(a - sqrt(w)) and Math.round(a + sqrt(w)) for rationals a and
\* w >= 0: the largest integer k with k <= a + 1/2 -/+ sqrt(w).
RoundMinusSqrt(a, w) ==
  LET half == RAdd(a, Rat(1, 2))
      hi == FloorOf(half) - ISqrt(w)
  IN  IF SqrtLe(w, RSub(half, RInt(hi))) THEN hi ELSE hi - 1

RoundPlusSqrt(a, w) ==
  LET half == RAdd(a, Rat(1, 2))
      lo == FloorOf(half) + ISqrt(w)
      over == RSub(RInt(lo + 1), half)
  IN  IF RLe(RMul(over, over), w) THEN lo + 1 ELSE lo

\* the uncertainty shrinking with the day: Math.sqrt(1 / d)
UncertaintyFactorSquaredInverse(d) == Rat(1, d)

\* The square of uncertaintyFactor = Math.sqrt(d).
UncertaintyFactorSquared(d) == RInt(d)

\* The points of days d..forecastDays, runningBalance being the balance
\* after day d - 1.
RECURSIVE DailyProjections(_, _, _, _, _, _, _)
DailyProjections(d, forecastDays, runningBalance, eventMap, stats, start, acc) ==
  IF d > forecastDays THEN acc
  ELSE
    LET date == AddDays(start, d)
        dayEvents == Cents(eventMap[date])
        balance == RAdd(runningBalance, RSub(dayEvents, stats.dailyAvg))
        \* (dailyStdDev * uncertaintyFactor * 100) squared
        spread == RMul(RMul(stats.variance, UncertaintyFactorSquared(d)), RInt(10000))
        point == [date |-> date,
                  projected |-> Round2(balance),
                  lower |-> Rat(RoundMinusSqrt(RMul(balance, RInt(100)), spread), 100),
                  upper |-> Rat(RoundPlusSqrt(RMul(balance, RInt(100)), spread), 100)]
    IN  DailyProjections(d + 1, forecastDays, balance, eventMap, stats, start,
                         Append(acc, point))

ForecastCashflow(accounts, transactions, recurringItems, options, now) ==
  LET forecastDays == OrElse(options.forecastDays, 30)
      currentBalance == CurrentBalance(accounts, options)
      stats == ComputeDailyStats(DiscretionaryExpenses(transactions, recurringItems, options))
      eventMap == BuildRecurringEventMap(recurringItems, now, forecastDays)
      dailyProjections == DailyProjections(1, forecastDays, currentBalance, eventMap,
                                           stats, now, <<>>)
      projectedBalance == IF Len(dailyProjections) > 0
                          THEN dailyProjections[Len(dailyProjections)].projected
                          ELSE currentBalance
  IN  [currentBalance |-> Round2(currentBalance),
       projectedBalance |-> Round2(projectedBalance),
       forecastDays |-> forecastDays,
       dailyProjections |-> dailyProjections,
       recurringIncome |-> Round2(RecurringIncome(recurringItems)),
       recurringExpenses |-> Round2(RecurringExpenses(recurringItems)),
       discretionaryAverage |-> Round2(stats.dailyAvg)]


\* --------------------------------------------------- inputs of the forecast

MaxForecastAccounts == 2
MaxForecastTx == 2

ForecastAccounts ==
  { Account(id, 10000, isAsset) :
      id \in {"a", "b"}, isAsset \in {Undefined, <<TRUE>>, <<FALSE>>} }
  \cup { Account(id, -2550, Undefined) : id \in {"a", "b"} }

ForecastAccountIds == {Undefined, << <<>> >>, << <<"a">> >>, << <<"b", "c">> >>}

\* Discretionary spending of one or two cents and of thirty on two days, an
\* income row, and a row of the recurring merchant "rent".
ForecastTxs ==
  { Tx("t", 10, -1, <<"s", "h", "o", "p">>, CategoryUndefined),
    Tx("t", 11, -1, <<"s", "h", "o", "p">>, CategoryUndefined),
    Tx("t", 11, -2, <<"s", "h", "o", "p">>, CategoryUndefined) }
  \cup { Tx("t", 10, -30, <<"s", "h", "o", "p">>, CategoryUndefined),
         Tx("t", 11, 500, <<"s", "h", "o", "p">>, CategoryUndefined),
         Tx("t", 11, -20, <<" ", "R", "e", "n", "t">>, CategoryUndefined) }

ForecastRecurringItems ==
  { <<>>,
    << RecurringItem("r1", <<"r", "e", "n", "t">>, -1000, "monthly", 30) >>,
    << RecurringItem("r2", <<"p", "a", "y">>, 2000, "weekly", 42),
       RecurringItem("r3", <<"g", "y", "m">>, -300, "biweekly", 41) >>,
    << RecurringItem("r4", <<"t", "a", "x">>, -500, "quarterly", 44),
       RecurringItem("r5", <<"b", "o", "n", "u", "s">>, 1200, "annual", 0) >> }

ForecastOptionsOf(forecastDays, accountIds, recurringMerchantIds) ==
  [forecastDays |-> forecastDays, accountIds |-> accountIds,
   recurringMerchantIds |-> recurringMerchantIds]

\* The default horizon of 30 days, one of four days with and without
\* recurringMerchantIds, and none.
ForecastHorizons ==
  { ForecastOptionsOf(Undefined, Undefined, Undefined),
    ForecastOptionsOf(<<4>>, Undefined, Undefined),
    ForecastOptionsOf(<<4>>, Undefined, << {<<"S", "h", "o", "p", " ">>} >>),
    ForecastOptionsOf(<<0>>, Undefined, Undefined) }

ForecastFixedAccounts ==
  << Account("a", 10000, Undefined), Account("b", 50000, <<TRUE>>) >>

ForecastFixedTxs ==
  << Tx("t", 10, -30, <<"s", "h", "o", "p">>, CategoryUndefined),
     Tx("t", 11, -20, <<" ", "R", "e", "n", "t">>, CategoryUndefined) >>

ForecastFixedItems ==
  << RecurringItem("r1", <<"r", "e", "n", "t">>, -1000, "monthly", 30) >>

ForecastArgs(accounts, transactions, recurringItems, options) ==
  [accounts |-> accounts, transactions |-> transactions,
   recurringItems |-> recurringItems, options |-> options]

\* Either the accounts and their selection vary, or the transactions, the
\* recurring items and the horizon do.
ForecastInputIs(a) ==
  \/ \E accounts \in SeqUpTo(ForecastAccounts, MaxForecastAccounts),
        accountIds \in ForecastAccountIds :
       a = ForecastArgs(accounts, ForecastFixedTxs, ForecastFixedItems,
                        ForecastOptionsOf(<<2>>, accountIds, Undefined))
  \/ \E transactions \in SeqUpTo(ForecastTxs, MaxForecastTx),
        recurringItems \in ForecastRecurringItems,
        options \in ForecastHorizons :
       a = ForecastArgs(ForecastFixedAccounts, transactions, recurringItems, options)

InitForecast ==
  /\ fn = "forecastCashflow"
  /\ ForecastInputIs(args)
  /\ today \in Todays
  /\ pc = "ready"
  /\ result = NoResult
  /\ ServerIdle

CallForecast ==
  /\ pc = "ready"
  /\ fn = "forecastCashflow"
  /\ result' = ForecastCashflow(args.accounts, args.transactions, args.recurringItems,
                                args.options, today)
  /\ pc' = "done"
  /\ UNCHANGED <<fn, args, today>>
  /\ UNCHANGED serverVars

SpecForecast == InitForecast /\ [][CallForecast]_vars

ForecastDone == pc = "done" /\ fn = "forecastCashflow"

\* The selection the claim describes.
IsSelected(a) ==
  IF args.options.accountIds # Undefined
  THEN \E i \in DOMAIN args.options.accountIds[1] : args.options.accountIds[1][i] = a.id
  ELSE a.isAsset # <<TRUE>>

SelectedPositions == { i \in DOMAIN args.accounts : IsSelected(args.accounts[i]) }

RECURSIVE SumBalances(_)
SumBalances(P) ==
  IF P = {} THEN 0
  ELSE LET i == CHOOSE i \in P : TRUE
       IN  args.accounts[i].currentBalance + SumBalances(P \ {i})

OtherBalances == {777}

ForecastVariance ==
  ComputeDailyStats(DiscretionaryExpenses(args.transactions, args.recurringItems,
                                          args.options)).variance

Width(point) == RSub(point.upper, point.lower)

Init ==
  \/ InitSpending
  \/ InitAnomalies
  \/ InitTrends
  \/ InitSubscriptions
  \/ InitForecast
  \/ InitHealth

Next ==
  \/ CallSpending
  \/ CallAnomalies
  \/ CallTrends
  \/ CallSubscriptions
  \/ CallForecast
  \/ CallHealth

Spec == Init /\ [][Next]_vars

\* C10: no analyzer mutates a caller-provided array or record: after any
\* call every input array has the same elements in the same order and every
\* record the same field values as before the call.
C10_InputsNotMutated == [][args' = args]_vars

\* detectAnomalies has returned duplicates it found in its sorted copy, and
\* the caller's transactions are still out of date order.
C10_Witness ==
  /\ AnomaliesDone
  /\ \E i \in DOMAIN result : result[i].type = "duplicate"
  /\ \E i \in 1..(Len(args.transactions) - 1) :
       args.transactions[i].date > args.transactions[i + 1].date


\* ================================================ the same call made twice

MaxRepeatTx == 1

Analyzers ==
  {"analyzeSpending", "detectAnomalies", "detectTrends", "analyzeSubscriptions",
   "forecastCashflow", "calculateHealthScore"}

\* What analyzer f returns for the arguments a when the clock shows the day
\* now (read by derivePeriod and by todayISO only).
AnalyzerResult(f, a, now) ==
  CASE f = "analyzeSpending" -> AnalyzeSpending(a.transactions, a.options, now)
    [] f = "detectAnomalies" -> DetectAnomalies(a.transactions, a.options)
    [] f = "detectTrends" -> DetectTrends(a.transactions, a.options)
    [] f = "analyzeSubscriptions" -> AnalyzeSubscriptions(a.recurringTransactions, a.options)
    [] f = "forecastCashflow" ->
         ForecastCashflow(a.accounts, a.transactions, a.recurringItems, a.options, now)
    [] f = "calculateHealthScore" -> CalculateHealthScore(a)

RepeatInputIs(f, a) ==
  \/ /\ f = "analyzeSpending"
     /\ \E txs \in SeqUpTo(SpendTxs, MaxRepeatTx), options \in SpendOptions :
          a = [transactions |-> txs, options |-> options]
  \/ /\ f = "detectAnomalies"
     /\ \E txs \in SeqUpTo(AnomalyTxs, MaxRepeatTx), options \in AnomalyOptions :
          a = [transactions |-> txs, options |-> options]
  \/ /\ f = "detectTrends"
     /\ \E txs \in SeqUpTo(TrendTxs, MaxRepeatTx), options \in TrendOptions :
          a = [transactions |-> txs, options |-> options]
  \/ /\ f = "analyzeSubscriptions"
     /\ \E txs \in SeqUpTo(RecurringTxs, MaxRepeatTx), options \in SubscriptionOptions :
          a = [recurringTransactions |-> txs, options |-> options]
  \/ /\ f = "forecastCashflow"
     /\ \E txs \in SeqUpTo(ForecastTxs, MaxRepeatTx),
           recurringItems \in ForecastRecurringItems, options \in ForecastHorizons :
          a = ForecastArgs(ForecastFixedAccounts, txs, recurringItems, options)
  \/ /\ f = "calculateHealthScore"
     /\ \E acc \in HealthFixedAccounts, txs \in SeqUpTo(HealthTxs, MaxRepeatTx),
           bud \in HealthFixedBudgets, hist \in HealthFixedHistory :
          a = HealthData(acc, txs, bud, hist, Undefined)

InitRepeat ==
  /\ fn \in Analyzers
  /\ RepeatInputIs(fn, args)
  /\ today = FirstToday
  /\ pc = "ready"
  /\ result = NoResult
  /\ ServerIdle

\* Time passes between two calls: the clock shows a later day.
AdvanceClock ==
  /\ pc = "done"
  /\ \E t \in Todays : t > today /\ today' = t
  /\ pc' = "later"
  /\ UNCHANGED <<fn, args, result>>
  /\ UNCHANGED serverVars

\* The caller makes the call, and makes it once more with the same arguments.
CallAnalyzer ==
  /\ pc \in {"ready", "done", "later"}
  /\ result' = AnalyzerResult(fn, args, today)
  /\ args' = IF fn = "calculateHealthScore" THEN HealthDataAfter(args) ELSE args
  /\ pc' = IF pc = "ready" THEN "done" ELSE IF pc = "done" THEN "again" ELSE "againLater"
  /\ UNCHANGED <<fn, today>>
  /\ UNCHANGED serverVars

NextRepeat ==
  \/ CallAnalyzer
  \/ AdvanceClock

SpecRepeat == InitRepeat /\ [][NextRepeat]_vars

ResultShowsToday ==
  \/ /\ fn = "forecastCashflow"
     /\ OrElse(args.options.forecastDays, 30) > 0
  \/ /\ fn = "analyzeSpending"
     /\ FilterByPeriod(args.transactions, args.options.startDate,
                       args.options.endDate) = <<>>
     /\ ~(args.options.startDate # Undefined /\ args.options.endDate # Undefined)

ACCESS_TOKEN_TTL == 3600
REFRESH_TOKEN_TTL == 2592000
AUTH_CODE_TTL == 600

Null == <<>>

\* The seconds Date.now() may show, around the three lifetimes.
ClockInstants == {0, 600, 601, 3600, 3601, 2592000}

Clients == {"c1", "c2"}

AuthCodeRow(code, clientId, redirectUri, codeChallenge, codeChallengeMethod, at) ==
  [code |-> code, client_id |-> clientId, redirect_uri |-> redirectUri,
   code_challenge |-> codeChallenge, code_challenge_method |-> codeChallengeMethod,
   created_at |-> at, expires_at |-> at + AUTH_CODE_TTL]

TokenRow(token, type, clientId, at) ==
  [token |-> token, type |-> type, client_id |-> clientId, created_at |-> at,
   expires_at |-> at + (IF type = "access" THEN ACCESS_TOKEN_TTL ELSE REFRESH_TOKEN_TTL)]

\* SELECT ... FROM auth_codes WHERE code = ?
SelectAuthCode(rows, code) == { r \in rows : r.code = code }

\* the code left in the table
AuthCodesKeeping(rows, code) == rows

\* DELETE FROM auth_codes WHERE code = ?
AuthCodesWithout(rows, code) == { r \in rows : r.code # code }

\* What consumeAuthCode returns at the second at.
ConsumedAuthCode(rows, code, at) ==
  IF SelectAuthCode(rows, code) = {} THEN Null
  ELSE LET row == CHOOSE r \in SelectAuthCode(rows, code) : TRUE
       IN  IF row.expires_at < at THEN Null ELSE row

\* DELETE FROM auth_codes WHERE expires_at < ? (and the same on tokens)
Unexpired(rows, at) == { r \in rows : ~(r.expires_at < at) }

Issued(kind, value, clientId, at) ==
  [kind |-> kind, value |-> value, client_id |-> clientId, at |-> at]

\* Time passes.
Tick ==
  /\ \E t \in ClockInstants : t > clock /\ clock' = t
  /\ UNCHANGED <<authCodes, tokens, nextId, audit, reply, analysisVars, monarchVars, httpVars>>

MaxAuthCodes == 2

IssuedCount(kind) == Cardinality({ e \in audit.issued : e.kind = kind })

GenerateAuthCode(clientId, redirectUri, codeChallenge, codeChallengeMethod) ==
  /\ IssuedCount("code") < MaxAuthCodes
  /\ authCodes' = authCodes \cup
       {AuthCodeRow(nextId, clientId, redirectUri, codeChallenge,
                    codeChallengeMethod, clock)}
  /\ nextId' = nextId + 1
  /\ audit' = [audit EXCEPT !.issued = @ \cup {Issued("code", nextId, clientId, clock)}]
  /\ reply' = [op |-> "generateAuthCode", arg |-> clientId, at |-> clock, value |-> nextId]
  /\ UNCHANGED <<clock, tokens, analysisVars, monarchVars, httpVars>>

ConsumeAuthCode(code) ==
  LET row == ConsumedAuthCode(authCodes, code, clock)
  IN  /\ authCodes' = AuthCodesWithout(authCodes, code)
      /\ audit' = IF row = Null THEN audit
                  ELSE [audit EXCEPT !.redeemed = Append(@, code)]
      /\ reply' = [op |-> "consumeAuthCode", arg |-> code, at |-> clock, value |-> row]
      /\ UNCHANGED <<clock, tokens, nextId, analysisVars, monarchVars, httpVars>>

CleanupExpired ==
  /\ authCodes' = Unexpired(authCodes, clock)
  /\ tokens' = Unexpired(tokens, clock)
  /\ reply' = [op |-> "cleanupExpired", arg |-> Null, at |-> clock, value |-> Null]
  /\ UNCHANGED <<clock, nextId, audit, analysisVars, monarchVars, httpVars>>

InitStore == AnalysisIdle /\ ServerIdle

\* Codes are presented: issued ones, and one that never was.
NextAuthCodes ==
  \/ \E clientId \in Clients : GenerateAuthCode(clientId, "https://app/cb", Null, Null)
  \/ \E code \in 1..(MaxAuthCodes + 1) : ConsumeAuthCode(code)
  \/ CleanupExpired
  \/ Tick

SpecAuthCodes == InitStore /\ [][NextAuthCodes]_vars

NoDuplicates(seq) == \A i, j \in DOMAIN seq : seq[i] = seq[j] => i = j

\* C12: consumeAuthCode returns a record at most once for a given code;
\* whenever it has answered for a code the code is gone from the table, and
\* it answers null for a code older than its lifetime of 10 minutes.
C12_AuthCodeSingleUse ==
  /\ NoDuplicates(audit.redeemed)
  /\ (reply # NoReply /\ reply.op = "consumeAuthCode") =>
       /\ SelectAuthCode(authCodes, reply.arg) = {}
       /\ reply.value # Null =>
            /\ reply.at - reply.value.created_at <= AUTH_CODE_TTL
            /\ Issued("code", reply.arg, reply.value.client_id, reply.value.created_at)
                 \in audit.issued

\* One code has been redeemed, and another, never redeemed, was presented
\* after its lifetime and refused.
C12_Witness ==
  /\ reply # NoReply /\ reply.op = "consumeAuthCode"
  /\ reply.value = Null
  /\ audit.redeemed # <<>>
  /\ \A i \in DOMAIN audit.redeemed : audit.redeemed[i] # reply.arg
  /\ \E e \in audit.issued :
       e.kind = "code" /\ e.value = reply.arg /\ reply.at > e.at + AUTH_CODE_TTL


\* -------------------------------------------------------------- tokens

MaxTokenPairs == 2

\* any row of the token counts, a refresh token too
SelectValidTokenOfAnyType(rows, token, type, at) ==
  { r \in rows : r.token = token /\ r.expires_at > at }

\* SELECT ... FROM tokens WHERE token = ? AND type = ? AND expires_at > ?
SelectValidToken(rows, token, type, at) ==
  { r \in rows : r.token = token /\ r.type = type /\ r.expires_at > at }

\* What validateAccessToken returns at the second at.
ValidAccessToken(rows, token, at) == SelectValidToken(rows, token, "access", at) # {}

\* DELETE FROM tokens WHERE token = ?
TokensWithout(rows, token) == { r \in rows : r.token # token }

\* no access token removed
AccessTokensKept(rows, clientId) == {}

\* The rows removed by DELETE FROM tokens WHERE client_id = ? AND type = 'access'
AccessTokensOf(rows, clientId) ==
  { r \in rows : r.client_id = clientId /\ r.type = "access" }

\* The two rows generateTokenPair inserts, the access token being id.
TokenPairRows(id, clientId, at) ==
  {TokenRow(id, "access", clientId, at), TokenRow(id + 1, "refresh", clientId, at)}

TokenPair(id) ==
  [accessToken |-> id, refreshToken |-> id + 1, expiresIn |-> ACCESS_TOKEN_TTL]

PairIssued(id, clientId, at) ==
  {Issued("access", id, clientId, at), Issued("refresh", id + 1, clientId, at)}

GenerateTokenPair(clientId) ==
  /\ IssuedCount("access") < MaxTokenPairs
  /\ tokens' = tokens \cup TokenPairRows(nextId, clientId, clock)
  /\ nextId' = nextId + 2
  /\ audit' = [audit EXCEPT !.issued = @ \cup PairIssued(nextId, clientId, clock)]
  /\ reply' = [op |-> "generateTokenPair", arg |-> clientId, at |-> clock,
               value |-> TokenPair(nextId)]
  /\ UNCHANGED <<clock, authCodes, analysisVars, monarchVars, httpVars>>

ValidateAccessToken(token) ==
  /\ reply' = [op |-> "validateAccessToken", arg |-> token, at |-> clock,
               value |-> ValidAccessToken(tokens, token, clock)]
  /\ UNCHANGED <<oauthVars, analysisVars, monarchVars, httpVars>>

RefreshAccessToken(refreshToken) ==
  LET found == SelectValidToken(tokens, refreshToken, "refresh", clock)
  IN  IF found = {}
      THEN /\ reply' = [op |-> "refreshAccessToken", arg |-> refreshToken,
                        at |-> clock, value |-> Null]
           /\ UNCHANGED <<oauthVars, analysisVars, monarchVars, httpVars>>
      ELSE LET row == CHOOSE r \in found : TRUE
               rotated == TokensWithout(tokens, refreshToken)
               dropped == AccessTokensOf(rotated, row.client_id)
           IN  /\ IssuedCount("access") < MaxTokenPairs
               /\ tokens' = (rotated \ dropped)
                              \cup TokenPairRows(nextId, row.client_id, clock)
               /\ nextId' = nextId + 2
               /\ audit' = [audit EXCEPT
                    !.issued = @ \cup PairIssued(nextId, row.client_id, clock),
                    !.redeemed = Append(@, refreshToken),
                    !.revoked = @ \cup { r.token : r \in dropped }]
               /\ reply' = [op |-> "refreshAccessToken", arg |-> refreshToken,
                            at |-> clock, value |-> TokenPair(nextId)]
               /\ UNCHANGED <<clock, authCodes, analysisVars, monarchVars, httpVars>>

\* -------------------------------------------------------------- bearerAuth

BearerPrefix == <<"B", "e", "a", "r", "e", "r", " ">>

StartsWith(str, prefix) ==
  Len(str) >= Len(prefix) /\ SubSeq(str, 1, Len(prefix)) = prefix

\* auth.slice(7)
Slice7(str) == SubSeq(str, 8, Len(str))

\* The status bearerAuth answers with (200 standing for next()); a header is
\* a sequence of characters that a token value may end.
BearerStatus(auth, rows, at) ==
  IF auth = Null \/ ~StartsWith(auth, BearerPrefix) THEN 401
  ELSE IF Slice7(auth) = <<>> THEN 401
  ELSE IF ~ValidAccessToken(rows, Slice7(auth)[1], at) THEN 401
  ELSE 200

BearerAuth(auth) ==
  /\ reply' = [op |-> "bearerAuth", arg |-> auth, at |-> clock,
               value |-> BearerStatus(auth, tokens, clock)]
  /\ UNCHANGED <<oauthVars, analysisVars, monarchVars, httpVars>>

\* The strings a caller may present as a token: every value issued so far,
\* as a code or as a token, and one never issued.
Presentable == 1..(2 * MaxTokenPairs + 1)

Headers ==
  {Null, BearerPrefix, <<"b", "e", "a", "r", "e", "r", " ", "x">>,
   <<"B", "a", "s", "i", "c", " ", "x">>}
  \cup { BearerPrefix \o <<t>> : t \in Presentable }

NextTokens ==
  \/ \E clientId \in Clients : GenerateTokenPair(clientId)
  \/ \E token \in Presentable : ValidateAccessToken(token)
  \/ \E token \in Presentable : RefreshAccessToken(token)
  \/ CleanupExpired
  \/ Tick

SpecTokens == InitStore /\ [][NextTokens]_vars

IssuedTo(token) == CHOOSE e \in audit.issued : e.value = token

RepliedTo(op) == reply # NoReply /\ reply.op = op

BearerInstants == {600, 3600, 3601}

\* A protected route in front of the store; one authorization code is issued,
\* to be presented as a token.
NextBearer ==
  \/ \E clientId \in Clients : GenerateTokenPair(clientId)
  \/ IssuedCount("code") = 0 /\ GenerateAuthCode("c1", "https://app/cb", Null, Null)
  \/ \E token \in Presentable : ValidateAccessToken(token)
  \/ \E token \in Presentable : RefreshAccessToken(token)
  \/ \E auth \in Headers : BearerAuth(auth)
  \/ CleanupExpired
  \/ Tick /\ clock' \in BearerInstants

SpecBearer == InitStore /\ [][NextBearer]_vars

\* The token was issued by generateTokenPair as an access token less than
\* ACCESS_TOKEN_TTL seconds before at, and no refresh has revoked it.
IssuedAndCurrent(token, at) ==
  /\ token \notin audit.revoked
  /\ \E e \in audit.issued :
       e.kind = "access" /\ e.value = token /\ at - e.at < ACCESS_TOKEN_TTL

IsBearerHeader(auth) ==
  auth # Null /\ StartsWith(auth, BearerPrefix) /\ Len(auth) > Len(BearerPrefix)

\* C14: validateAccessToken(t) is true only for an access token issued less
\* than 3600 s earlier and not revoked by a refresh, so it is false for
\* refresh tokens, authorization codes, unknown strings and expired tokens;
\* bearerAuth answers 401 exactly when the header is missing or malformed or
\* validateAccessToken is false for its token.
C14_OnlyCurrentAccessTokensValidate ==
  /\ \A t \in Presentable :
       ValidAccessToken(tokens, t, clock) => IssuedAndCurrent(t, clock)
  /\ RepliedTo("validateAccessToken") =>
       (reply.value => IssuedAndCurrent(reply.arg, reply.at))
  /\ RepliedTo("bearerAuth") =>
       (reply.value = 401 <=>
          (~IsBearerHeader(reply.arg)
             \/ ~ValidAccessToken(tokens, reply.arg[Len(reply.arg)], reply.at)))
  /\ (RepliedTo("bearerAuth") /\ reply.value # 401) =>
       IssuedAndCurrent(reply.arg[Len(reply.arg)], reply.at)

\* bearerAuth has refused an access token that a refresh revoked within its
\* lifetime, while another access token, a refresh token and an authorization
\* code are in the store.
C14_Witness ==
  /\ RepliedTo("bearerAuth")
  /\ reply.value = 401
  /\ IsBearerHeader(reply.arg)
  /\ reply.arg[Len(reply.arg)] \in audit.revoked
  /\ IssuedTo(reply.arg[Len(reply.arg)]).at + ACCESS_TOKEN_TTL > reply.at
  /\ authCodes # {}
  /\ \E r \in tokens : r.type = "access" /\ r.expires_at > clock
  /\ \E r \in tokens : r.type = "refresh"


\* -------------------------------------------------------------- /oauth/authorize, /oauth/token

\* The base64url SHA-256 of the code verifiers used here.
Sha256Base64Url(str) ==
  CASE str = "v1" -> "O_wmlZTvZJIo6adLqwDwQu_JHVrMb77jGjgugNQjiP4"
    [] str = "v2" -> "-wTctpcOTD0Yc95R_VpQ17tGszgxE2AmZcNQ7EC1-ZA"
    [] OTHER -> "47DEQpj8HBSa-_TImW-5JCeuQeRkm5NMpJWZG3hSuFU"

VerifyCodeChallenge(codeVerifier, codeChallenge) ==
  Sha256Base64Url(codeVerifier) = codeChallenge

\* x || undefined, for a form field that is "" when absent
OrUndefined(str) == IF str = "" THEN Undefined ELSE <<str>>

RedirectUri == "https://app/cb"

\* POST /oauth/authorize by a registered client with the right passphrase.
PostAuthorize(clientId, codeChallenge, codeChallengeMethod) ==
  GenerateAuthCode(clientId, RedirectUri, OrUndefined(codeChallenge),
                   OrUndefined(codeChallengeMethod))

\* authCode.code_challenge && authCode.code_challenge_method === "S256"
PkceApplies(authCode) ==
  authCode.code_challenge # Undefined /\ authCode.code_challenge_method = <<"S256">>

\* The error the authorization_code grant ends with, "" when it issues tokens;
\* authCode is what consumeAuthCode returned. A body holds "" (0 for a code or
\* a token) for a field that is absent.
GrantError(body, authCode) ==
  IF authCode = Null THEN "invalid_grant: code"
  ELSE IF authCode.client_id # body.client_id THEN "invalid_grant: client_id"
  ELSE IF body.redirect_uri # "" /\ authCode.redirect_uri # body.redirect_uri
    THEN "invalid_grant: redirect_uri"
  ELSE IF PkceApplies(authCode) /\ body.code_verifier = ""
    THEN "invalid_grant: code_verifier required"
  ELSE IF PkceApplies(authCode)
          /\ ~VerifyCodeChallenge(body.code_verifier, authCode.code_challenge[1])
    THEN "invalid_grant: code_verifier"
  ELSE ""

TokenResponse(body, status, error, authCode, pair) ==
  [op |-> "token", arg |-> body, at |-> clock,
   value |-> [status |-> status, error |-> error, authCode |-> authCode, tokens |-> pair]]

\* POST /oauth/token
PostToken(body) ==
  IF body.grant_type = "authorization_code"
  THEN IF body.code = 0 \/ body.client_id = ""
       THEN /\ reply' = TokenResponse(body, 400, "invalid_request", Null, Null)
            /\ UNCHANGED <<oauthVars, analysisVars, monarchVars, httpVars>>
       ELSE LET authCode == ConsumedAuthCode(authCodes, body.code, clock)
                error == GrantError(body, authCode)
                redeemed == IF authCode = Null THEN audit.redeemed
                            ELSE Append(audit.redeemed, body.code)
            IN  /\ authCodes' = AuthCodesWithout(authCodes, body.code)
                /\ IF error # ""
                   THEN /\ reply' = TokenResponse(body, 400, error, authCode, Null)
                        /\ audit' = [audit EXCEPT !.redeemed = redeemed]
                        /\ UNCHANGED <<tokens, nextId>>
                   ELSE /\ IssuedCount("access") < MaxTokenPairs
                        /\ tokens' = tokens \cup TokenPairRows(nextId, body.client_id, clock)
                        /\ nextId' = nextId + 2
                        /\ audit' = [audit EXCEPT
                             !.redeemed = redeemed,
                             !.issued = @ \cup PairIssued(nextId, body.client_id, clock)]
                        /\ reply' = TokenResponse(body, 200, "", authCode, TokenPair(nextId))
                /\ UNCHANGED <<clock, analysisVars, monarchVars, httpVars>>
  ELSE IF body.grant_type = "refresh_token"
  THEN IF body.refresh_token = 0
       THEN /\ reply' = TokenResponse(body, 400, "invalid_request", Null, Null)
            /\ UNCHANGED <<oauthVars, analysisVars, monarchVars, httpVars>>
       ELSE RefreshAccessToken(body.refresh_token)
  ELSE /\ reply' = TokenResponse(body, 400, "unsupported_grant_type", Null, Null)
       /\ UNCHANGED <<oauthVars, analysisVars, monarchVars, httpVars>>

CodeVerifiers == {"", "v1", "v2"}

CodeChallenges == {"", Sha256Base64Url("v1")}

CodeChallengeMethods == {"", "S256", "plain"}

TokenRequest(grantType, code, clientId, redirectUri, codeVerifier, refreshToken) ==
  [grant_type |-> grantType, code |-> code, client_id |-> clientId,
   redirect_uri |-> redirectUri, code_verifier |-> codeVerifier,
   refresh_token |-> refreshToken]

\* Requests of the client the codes are issued to, with and without a
\* verifier, and requests that differ from them in one field.
CodeGrants ==
  { TokenRequest("authorization_code", code, "c1", RedirectUri, codeVerifier, 0) :
      code \in 0..MaxAuthCodes, codeVerifier \in CodeVerifiers }
  \cup { TokenRequest("authorization_code", code, "c2", "", "v1", 0) :
           code \in 1..MaxAuthCodes }
  \cup { TokenRequest("authorization_code", code, "c1", "https://other/cb", "v1", 0) :
           code \in 1..MaxAuthCodes }

OtherGrants ==
  { TokenRequest("refresh_token", 0, "c1", "", "", refreshToken) :
      refreshToken \in 0..(MaxAuthCodes + 2 * MaxTokenPairs) }
  \cup {TokenRequest("password", 0, "c1", "", "", 0)}

\* The instants around the lifetime of an authorization code.
GrantInstants == {600, 601}

NextOAuth ==
  \/ \E codeChallenge \in CodeChallenges, codeChallengeMethod \in CodeChallengeMethods :
       authCodes = {} /\ PostAuthorize("c1", codeChallenge, codeChallengeMethod)
  \/ \E body \in CodeGrants \cup OtherGrants : PostToken(body)
  \/ Tick /\ clock' \in GrantInstants

SpecOAuth == InitStore /\ [][NextOAuth]_vars

\* C15: when the token endpoint has issued a pair for a code that was issued
\* with a code_challenge, the request carried a code_verifier whose base64url
\* SHA-256 is the challenge, whatever code_challenge_method the code was issued
\* with.
C15_PkceEnforced ==
  (/\ RepliedTo("token")
   /\ reply.value.status = 200
   /\ reply.value.authCode.code_challenge # Undefined)
    => /\ reply.arg.code_verifier # ""
       /\ VerifyCodeChallenge(reply.arg.code_verifier,
                              reply.value.authCode.code_challenge[1])


\* -------------------------------------------------------------- rateLimit

\* options.rpm of the limiter
Rpm == 2

windowMs == 60000

TimeInstants == {0, 1, 60000, 60001}

\* Time passes.
Advance ==
  /\ \E t \in TimeInstants : t > time /\ time' = t
  /\ UNCHANGED <<limiterVars, sessions, transportVars, oauthVars, reply, analysisVars, monarchVars>>

\* map.set(key, value)
MapSet(map, key, value) ==
  [k \in DOMAIN map \cup {key} |-> IF k = key THEN value ELSE map[k]]

\* map.delete(key), for a set of keys
MapDelete(map, keys) == [k \in DOMAIN map \ keys |-> map[k]]

\* map.get(key) ?? fallback
MapGet(map, key, fallback) == IF key \in DOMAIN map THEN map[key] ELSE fallback

\* a timestamp at the cutoff still counts
NotBefore(timestamps, cutoff) == SelectSeq(timestamps, LAMBDA t : t >= cutoff)

\* timestamps.filter((t) => t > cutoff)
After(timestamps, cutoff) == SelectSeq(timestamps, LAMBDA t : t > cutoff)

\* The address a request is counted under; xForwardedFor is the header split
\* at its commas, <<>> without the header.
ClientIp(xForwardedFor, xRealIp) ==
  IF xForwardedFor # <<>> /\ xForwardedFor[1] # "" THEN xForwardedFor[1]
  ELSE IF xRealIp # Undefined THEN xRealIp[1]
  ELSE "unknown"

\* The middleware returned by rateLimit({rpm: Rpm}); 200 stands for next().
RateLimit(xForwardedFor, xRealIp) ==
  LET ip == ClientIp(xForwardedFor, xRealIp)
      filtered == After(MapGet(windows, ip, <<>>), time - windowMs)
  IN  /\ IF Len(filtered) >= Rpm
         THEN /\ windows' = MapSet(windows, ip, MapGet(windows, ip, <<>>))
              /\ admitted' = admitted
              /\ reply' = [op |-> "rateLimit", arg |-> ip, at |-> time, value |-> 429]
         ELSE /\ windows' = MapSet(windows, ip, Append(filtered, time))
              /\ admitted' = MapSet(admitted, ip, Append(MapGet(admitted, ip, <<>>), time))
              /\ reply' = [op |-> "rateLimit", arg |-> ip, at |-> time, value |-> 200]
      /\ UNCHANGED <<time, sessions, transportVars, oauthVars, analysisVars, monarchVars>>

\* The callback of cleanupInterval.
CleanupWindows ==
  LET cutoff == time - windowMs
      stale == { ip \in DOMAIN windows : After(windows[ip], cutoff) = <<>> }
  IN  /\ windows' = [ip \in DOMAIN windows \ stale |-> After(windows[ip], cutoff)]
      /\ UNCHANGED <<time, admitted, sessions, transportVars, oauthVars, reply, analysisVars, monarchVars>>

\* The headers X-Forwarded-For and X-Real-IP of the requests made: two
\* addresses, each reached in two ways.
RequestHeaders ==
  {<<<<"unknown", "9.9.9.9">>, <<"2.2.2.2">>>>, <<<<>>, Undefined>>,
   <<<<"">>, <<"2.2.2.2">>>>, <<<<>>, <<"2.2.2.2">>>>}

NextRateLimit ==
  \/ \E headers \in RequestHeaders : RateLimit(headers[1], headers[2])
  \/ CleanupWindows
  \/ Advance

InitServer == AnalysisIdle /\ ServerIdle

SpecRateLimit == InitServer /\ [][NextRateLimit]_vars

\* The requests of timestamps that fall in the 60 s ending at the instant at.
InWindow(timestamps, at) ==
  Len(SelectSeq(timestamps, LAMBDA t : t > at - windowMs /\ t <= at))

IsSuffix(suffix, seq) ==
  Len(suffix) <= Len(seq)
  /\ suffix = SubSeq(seq, Len(seq) - Len(suffix) + 1, Len(seq))

\* C16: per address, no 60 s window holds more than Rpm admitted requests; a
\* request is answered 429 when Rpm admitted requests are in the window ending
\* with it, and is then not recorded; any other is admitted and recorded; what
\* the limiter holds is always the latest admitted requests, all those of the
\* current window among them, whatever the cleanup removed.
C16_AtMostRpmPerWindow ==
  /\ \A ip \in DOMAIN admitted :
       \A i \in DOMAIN admitted[ip] : InWindow(admitted[ip], admitted[ip][i]) <= Rpm
  /\ \A ip \in DOMAIN windows :
       /\ IsSuffix(windows[ip], MapGet(admitted, ip, <<>>))
       /\ After(MapGet(admitted, ip, <<>>), time - windowMs)
            = After(windows[ip], time - windowMs)
  /\ \A ip \in DOMAIN admitted :
       ip \notin DOMAIN windows => After(admitted[ip], time - windowMs) = <<>>
  /\ RepliedTo("rateLimit") =>
       LET log == MapGet(admitted, reply.arg, <<>>)
       IN  IF reply.value = 429
           THEN InWindow(log, reply.at) >= Rpm
           ELSE log # <<>> /\ log[Len(log)] = reply.at

\* A request is refused while Rpm earlier ones are in its window, one of them
\* at the very start of it, after a cleanup has run.
C16_Witness ==
  /\ RepliedTo("rateLimit")
  /\ reply.value = 429
  /\ reply.at >= windowMs
  /\ \E i \in DOMAIN admitted[reply.arg] :
       admitted[reply.arg][i] = reply.at - windowMs + 1
  /\ \E ip \in DOMAIN admitted : ip \notin DOMAIN windows


\* -------------------------------------------------------------- POST /mcp: sessions

\* 30 * 60_000
SessionIdleMs == 1800000

\* 5 * 60_000
SweepIntervalMs == 300000

MaxSessions == 2

SessionInstants == {0, 900000, 1800000, 1800001, 2100000}

\* A session, of which only the last use is kept here.
McpSession(lastAccess) == [lastAccess |-> lastAccess]

\* The sessions the interval callback running at the instant at closes.
Stale(map, at) == { id \in DOMAIN map : map[id].lastAccess < at - SessionIdleMs }

\* Time passes to the instant t; the interval callbacks due on the way run,
\* and the last of them removes whatever the earlier ones would.
Elapse(t) ==
  LET last == (t \div SweepIntervalMs) * SweepIntervalMs
  IN  /\ t > time
      /\ time' = t
      /\ sessions' = IF last > time THEN MapDelete(sessions, Stale(sessions, last))
                     ELSE sessions
      /\ UNCHANGED <<limiterVars, transportVars, oauthVars, reply, analysisVars, monarchVars>>

\* POST /mcp for a request the rate limiter has let through, answered by the
\* session's transport; sessionId is Undefined without the header, and names
\* a session that was created or, as 0, one that never was.
PostMcp(sessionId) ==
  IF sessionId # Undefined /\ sessionId[1] \in DOMAIN sessions
  THEN LET session == sessions[sessionId[1]]
       IN  /\ sessions' = MapSet(sessions, sessionId[1], McpSession(time))
           /\ reply' = [op |-> "mcp", arg |-> sessionId, at |-> time,
                        value |-> [servedBy |-> sessionId[1], newSessionId |-> Undefined,
                                   idle |-> time - session.lastAccess]]
           /\ UNCHANGED <<time, limiterVars, transportVars, oauthVars, analysisVars, monarchVars>>
  ELSE /\ nextId <= MaxSessions
       /\ sessions' = MapSet(sessions, nextId, McpSession(time))
       /\ nextId' = nextId + 1
       /\ reply' = [op |-> "mcp", arg |-> sessionId, at |-> time,
                    value |-> [servedBy |-> nextId, newSessionId |-> <<nextId>>,
                               idle |-> 0]]
       /\ UNCHANGED <<time, limiterVars, transportVars, clock, authCodes, tokens,
                      audit, analysisVars, monarchVars>>

NextSessions ==
  \/ \E sessionId \in {Undefined} \cup { <<id>> : id \in 0..(nextId - 1) } :
       PostMcp(sessionId)
  \/ \E t \in SessionInstants : Elapse(t)

SpecSessions == InitServer /\ [][NextSessions]_vars

\* C17: a request naming a session is served by that session only if the
\* session was last used at most 30 minutes before, and the session's
\* lastAccess is then no earlier than the request; any other request is served
\* by a new session whose id is returned.
C17_SessionsExpireAfter30Minutes ==
  RepliedTo("mcp") =>
    IF reply.value.newSessionId = Undefined
    THEN /\ reply.value.idle <= SessionIdleMs
         /\ reply.value.servedBy = reply.arg[1]
         /\ reply.arg[1] \in DOMAIN sessions =>
              sessions[reply.arg[1]].lastAccess >= reply.at
    ELSE /\ reply.value.servedBy = reply.value.newSessionId[1]
         /\ reply.arg # reply.value.newSessionId


\* -------------------------------------------------------------- HttpTransport

\* 60_000, the delay of the safety timeout
TimeoutMs == 60000

MaxCalls == 2

JsonRpcIds == {1, 2}

\* A call of handleJsonRpc with an id: its promise is pending while outcome is
\* Null, and its timeout has yet to run while timer is TRUE.
Call(id, at) == [id |-> id, at |-> at, outcome |-> Null, timer |-> TRUE]

\* resolve(message) of the promise of the call at index: the first one settles it.
Resolve(all, index, message) ==
  IF all[index].outcome = Null THEN [all EXCEPT ![index].outcome = <<message>>]
  ELSE all

\* resolve(message) for each of the calls at indices
RECURSIVE ResolveAll(_, _, _)
ResolveAll(all, indices, message) ==
  IF indices = {} THEN all
  ELSE LET index == CHOOSE i \in indices : TRUE
       IN  ResolveAll(Resolve(all, index, message), indices \ {index}, message)

RemoveAt(seq, k) == SubSeq(seq, 1, k - 1) \o SubSeq(seq, k + 1, Len(seq))

\* handleJsonRpc(body); id is Undefined for a notification. A request is
\* dispatched to the server, which answers it later.
HandleJsonRpc(id) ==
  IF id = Undefined
  THEN /\ reply' = [op |-> "handleJsonRpc", arg |-> id, at |-> time,
                    value |-> [id |-> Null, result |-> "{}"]]
       /\ UNCHANGED <<time, limiterVars, sessions, transportVars, oauthVars, analysisVars, monarchVars>>
  ELSE /\ Len(calls) < MaxCalls
       /\ \E t \in TimeInstants : t >= time + TimeoutMs
       /\ calls' = Append(calls, Call(id[1], time))
       /\ pendingResponses' = MapSet(pendingResponses, id[1], Len(calls) + 1)
       /\ inbox' = Append(inbox, id[1])
       /\ UNCHANGED <<time, limiterVars, sessions, oauthVars, reply, analysisVars, monarchVars>>

\* send(message): the server answers the k-th request it still holds.
Send(k) ==
  /\ k \in DOMAIN inbox
  /\ inbox' = RemoveAt(inbox, k)
  /\ IF inbox[k] \in DOMAIN pendingResponses
     THEN /\ calls' = Resolve(calls, pendingResponses[inbox[k]], "response")
          /\ pendingResponses' = MapDelete(pendingResponses, {inbox[k]})
     ELSE UNCHANGED <<calls, pendingResponses>>
  /\ UNCHANGED <<time, limiterVars, sessions, oauthVars, reply, analysisVars, monarchVars>>

\* The setTimeout callback of the call at index, 60 s after the call.
Timeout(index) ==
  /\ index \in DOMAIN calls
  /\ calls[index].timer
  /\ time >= calls[index].at + TimeoutMs
  /\ IF calls[index].id \in DOMAIN pendingResponses
     THEN /\ pendingResponses' = MapDelete(pendingResponses, {calls[index].id})
          /\ calls' = [Resolve(calls, index, "Request timed out")
                         EXCEPT ![index].timer = FALSE]
     ELSE /\ pendingResponses' = pendingResponses
          /\ calls' = [calls EXCEPT ![index].timer = FALSE]
  /\ UNCHANGED <<time, inbox, limiterVars, sessions, oauthVars, reply, analysisVars, monarchVars>>

\* close()
Close ==
  /\ calls' = ResolveAll(calls, { pendingResponses[id] : id \in DOMAIN pendingResponses },
                         "Transport closed")
  /\ pendingResponses' = EmptyMap
  /\ UNCHANGED <<time, inbox, limiterVars, sessions, oauthVars, reply, analysisVars, monarchVars>>

Answered == \E k \in 1..MaxCalls : Send(k)

TimedOut == \E index \in 1..MaxCalls : Timeout(index)

NextTransport ==
  \/ \E id \in {Undefined} \cup { <<i>> : i \in JsonRpcIds } : HandleJsonRpc(id)
  \/ Answered
  \/ TimedOut
  \/ Close
  \/ Advance

\* The server answers every request, time passes and due timers run.
SpecTransport ==
  /\ InitServer
  /\ [][NextTransport]_vars
  /\ WF_vars(Answered)
  /\ WF_vars(TimedOut)
  /\ WF_vars(Advance)

\* C18: every call of handleJsonRpc with an id is eventually resolved, with the
\* server's response, 'Request timed out' or 'Transport closed', also when two
\* pending calls carry the same id.
C18_EveryCallResolves ==
  \A index \in 1..MaxCalls :
    (index \in DOMAIN calls)
      ~> (index \in DOMAIN calls /\ calls[index].outcome # Null)


\* ------------------------------------------- detectTrends: what is emitted

\* The positions, in the filtered expenses of the call, of the transactions
\* of a category, and of those that fall in one month.
TrendFiltered == TrendFilter(args.transactions, args.options)

PositionsOf(category) ==
  { i \in DOMAIN TrendFiltered : CategoryOrUncategorized(TrendFiltered[i]) = category }

Buckets(category) ==
  { MonthLabel(TrendFiltered[i].date) : i \in PositionsOf(category) }

RECURSIVE SumAbsAt(_)
SumAbsAt(positions) ==
  IF positions = {} THEN 0
  ELSE LET i == CHOOSE p \in positions : TRUE
       IN  Abs(TrendFiltered[i].amount) + SumAbsAt(positions \ {i})

BucketTotal(category, month) ==
  Cents(SumAbsAt({ i \in PositionsOf(category) :
                     MonthLabel(TrendFiltered[i].date) = month }))

\* C19: a Trend is emitted for a category exactly when its filtered expenses
\* fall in at least minMonths distinct months, once per category; its
\* dataPoints are those months in chronological order, each with the sum of
\* the absolute amounts of the month.
C19_TrendPerCategoryWithEnoughMonths ==
  TrendsDone =>
    /\ \A i \in DOMAIN TrendFiltered :
         LET category == CategoryOrUncategorized(TrendFiltered[i])
         IN  (\E k \in DOMAIN result : result[k].category = category)
               <=> Cardinality(Buckets(category)) >= OrElse(args.options.minMonths, 3)
    /\ \A k \in DOMAIN result :
         LET trend == result[k]
             points == trend.dataPoints
         IN  /\ PositionsOf(trend.category) # {}
             /\ \A j \in DOMAIN result : result[j].category = trend.category => j = k
             /\ { points[p].period : p \in DOMAIN points } = Buckets(trend.category)
             /\ \A p \in 1..(Len(points) - 1) : points[p].period < points[p + 1].period
             /\ \A p \in DOMAIN points :
                  points[p].amount = BucketTotal(trend.category, points[p].period)

\* A trend is emitted whose months were not met in chronological order and
\* one of which holds two transactions.
C19_Witness ==
  /\ TrendsDone
  /\ \E k \in DOMAIN result :
       /\ Len(result[k].dataPoints) >= 2
       /\ \E i, j \in PositionsOf(result[k].category) :
            i < j /\ MonthLabel(TrendFiltered[i].date) = MonthLabel(TrendFiltered[j].date)
       /\ \E i, j \in PositionsOf(result[k].category) :
            i < j /\ MonthLabel(TrendFiltered[i].date) > MonthLabel(TrendFiltered[j].date)


\* ------------------------------------ calculateHealthScore: recommendations

\* The advisories in the order they are given: component, threshold, text.
Advisories ==
  <<<<"savingsRate", 50, "Increase your savings rate">>,
    <<"debtRatio", 50, "Focus on paying down high-interest debt">>,
    <<"emergencyFund", 50, "Build your emergency fund">>,
    <<"budgetAdherence", 70, "Review budget categories">>,
    <<"netWorthTrend", 50, "Your net worth is declining">>>>

BelowThreshold(advisory) ==
  RLt(result.components[advisory[1]].score, RInt(advisory[2]))

DueAdvisories == SelectSeq(Advisories, BelowThreshold)

\* C20: the recommendations are the advisories of the components below their
\* threshold (50, and 70 for budget adherence), one each, in the order
\* savings, debt, emergency fund, budget, net worth; the generic message is
\* there exactly when no component is below its threshold; the list is never
\* empty.
C20_OneAdvisoryPerWeakComponent ==
  HealthDone =>
    /\ result.recommendations # <<>>
    /\ DueAdvisories # <<>> =>
         result.recommendations = [i \in DOMAIN DueAdvisories |-> DueAdvisories[i][3]]
    /\ ("Your finances are in good shape" \in Range(result.recommendations))
         <=> DueAdvisories = <<>>
    /\ DueAdvisories = <<>> =>
         result.recommendations = <<"Your finances are in good shape">>

\* Budget adherence scores between 50 and 70 and is advised on, after another
\* advisory.
C20_Witness ==
  /\ HealthDone
  /\ RLe(RInt(50), result.components.budgetAdherence.score)
  /\ RLt(result.components.budgetAdherence.score, RInt(70))
  /\ Len(result.recommendations) >= 2
  /\ "Review budget categories" \in Range(result.recommendations)
  /\ result.recommendations[1] # "Review budget categories"


\* ================================== analyzeSpending: prior period comparison

\* Calls that compare a period with a prior one: the current and the prior
\* transactions are arrays of at most MaxPriorTx transactions.
MaxPriorTx == 2

PriorPeriodTxs ==
  { Tx("p", x[1], x[2], <<"s">>, CategoryObj(x[3])) :
      x \in { <<1, -4000, "Food">>, <<2, -2500, "Rent">>, <<2, 6000, "Pay">>,
              <<3, -3333, "Fun">> } }

InitPriorPeriod ==
  /\ fn = "analyzeSpending"
  /\ \E txs \in SeqUpTo(SpendTxs, MaxPriorTx),
        prior \in {Undefined} \cup {<<p>> : p \in SeqUpTo(PriorPeriodTxs, MaxPriorTx)} :
       args = [transactions |-> txs,
               options |-> [startDate |-> Undefined, endDate |-> Undefined,
                            topN |-> Undefined, priorPeriodTransactions |-> prior]]
  /\ today = FirstToday
  /\ pc = "ready"
  /\ result = NoResult
  /\ ServerIdle

SpecPriorPeriod == InitPriorPeriod /\ [][CallSpending]_vars

\* The prior set handed to the call, and the total of its expenses in cents.
PriorSupplied == args.options.priorPeriodTransactions # Undefined
PriorTxs == OrElse(args.options.priorPeriodTransactions, <<>>)
PriorTotal ==
  SumCents([i \in DOMAIN PriorTxs |-> IF PriorTxs[i].amount < 0 THEN -PriorTxs[i].amount ELSE 0])

\* The comparison the claim describes: the change in total spending and that
\* change as a percentage of the prior total, 0 when the prior total is 0.
ExpectedComparison ==
  LET change == RSub(result.totalSpending, Cents(PriorTotal))
  IN  [spendingChange |-> change,
       spendingChangePercent |->
         IF PriorTotal = 0 THEN RZero
         ELSE Round2(RDiv(RMul(change, RInt(100)), Cents(PriorTotal)))]

\* C21 (as claimed): whenever priorPeriodTransactions is supplied, the result
\* carries comparisonToPriorPeriod with spendingChange = current total minus
\* prior total and spendingChangePercent = the change relative to the prior
\* total, 0 when the prior total is 0.
C21_ComparisonWheneverSupplied ==
  (SpendingDone /\ ~result.threw /\ PriorSupplied) =>
    result.comparisonToPriorPeriod = <<ExpectedComparison>>

\* C21 (amended): the comparison is present exactly when the supplied prior
\* set is non-empty; it then holds the change in total spending and the
\* change as a percentage of the prior total, 0 when the prior total is 0. An
\* empty prior set gives no comparison, like an absent one.
C21_ComparisonWhenPriorNonEmpty ==
  (SpendingDone /\ ~result.threw) =>
    result.comparisonToPriorPeriod =
      IF PriorSupplied /\ Len(PriorTxs) > 0 THEN <<ExpectedComparison>> ELSE Undefined

\* A non-empty prior set without expenses: the percentage is 0 although
\* spending changed.
C21_Witness ==
  /\ SpendingDone /\ ~result.threw
  /\ Len(PriorTxs) > 0 /\ PriorTotal = 0
  /\ result.comparisonToPriorPeriod # Undefined
  /\ ~RIsZero(result.comparisonToPriorPeriod[1].spendingChange)
  /\ RIsZero(result.comparisonToPriorPeriod[1].spendingChangePercent)

\* ========================================= detectAnomalies: new merchants

\* Scans of at most MaxScanTx transactions of three merchants in several
\* spellings, without a historical set, with an empty one and with one that
\* knows merchant "a" only.
MaxScanTx == 3

ScanTxs ==
  { Tx(x[1], x[2], x[3], x[4], CategoryObj("Food")) :
      x \in { <<"1", 0, -1000, <<"A">>>>, <<"2", 3, -1200, <<" ", "a">>>>,
              <<"5", 2, -1000, <<"B">>>>, <<"7", 1, -2000, <<"b", " ">>>>,
              <<"8", 1, -700, <<"c">>>> } }

ScanHistories ==
  {Undefined, << <<>> >>, << <<Tx("h1", 0, -1000, <<"A", " ">>, CategoryObj("Food"))>> >>}

InitNewMerchants ==
  /\ fn = "detectAnomalies"
  /\ \E txs \in SeqUpTo(ScanTxs, MaxScanTx), history \in ScanHistories :
       args = [transactions |-> txs,
               options |-> [stdDevThreshold |-> Undefined, duplicateWindowDays |-> Undefined,
                            minTransactionsForStats |-> Undefined,
                            historicalTransactions |-> history]]
  /\ today = FirstToday
  /\ pc = "ready"
  /\ result = NoResult
  /\ ServerIdle

SpecNewMerchants == InitNewMerchants /\ [][CallAnomalies]_vars

NewMerchantAnomalies == SelectSeq(result, LAMBDA a : a.type = "new_merchant")

HistoricalTxs == OrElse(args.options.historicalTransactions, <<>>)
HistoricalMerchants == {NormalizeMerchant(HistoricalTxs[i].merchant) : i \in DOMAIN HistoricalTxs}
ScannedMerchants ==
  {NormalizeMerchant(args.transactions[i].merchant) : i \in DOMAIN args.transactions}

\* The position of the first scanned transaction of a normalized merchant.
FirstOccurrence(norm) ==
  MinOf({i \in DOMAIN args.transactions : NormalizeMerchant(args.transactions[i].merchant) = norm})

\* The positions in the result of the new-merchant anomalies of a merchant.
FlagsOf(norm) ==
  {i \in DOMAIN NewMerchantAnomalies :
     NormalizeMerchant(NewMerchantAnomalies[i].transaction.merchant) = norm}

\* C22: detectAnomalies emits 'new_merchant' anomalies only when
\* historicalTransactions is supplied, and then exactly one, of severity low,
\* per normalized merchant absent from the historical set, attached to the
\* merchant's first occurrence in the scanned array; later occurrences of the
\* merchant are not flagged.
C22_NewMerchantFlaggedOnce ==
  AnomaliesDone =>
    /\ args.options.historicalTransactions = Undefined => Len(NewMerchantAnomalies) = 0
    /\ args.options.historicalTransactions # Undefined =>
         \A norm \in ScannedMerchants :
           IF norm \in HistoricalMerchants THEN FlagsOf(norm) = {}
           ELSE /\ Cardinality(FlagsOf(norm)) = 1
                /\ \A i \in FlagsOf(norm) :
                     /\ NewMerchantAnomalies[i].severity = "low"
                     /\ NewMerchantAnomalies[i].transaction
                          = AnomalyTx(args.transactions[FirstOccurrence(norm)])

\* A scan with a known merchant and a new merchant that occurs twice in
\* different spellings: only its first occurrence is flagged.
C22_Witness ==
  /\ AnomaliesDone
  /\ Len(HistoricalTxs) > 0
  /\ \E i, j \in DOMAIN args.transactions :
       /\ i < j
       /\ args.transactions[i].merchant # args.transactions[j].merchant
       /\ NormalizeMerchant(args.transactions[i].merchant) = <<"b">>
       /\ NormalizeMerchant(args.transactions[j].merchant) = <<"b">>
  /\ \E k \in DOMAIN args.transactions :
       NormalizeMerchant(args.transactions[k].merchant) = <<"a">>
  /\ Len(NewMerchantAnomalies) = 1

\* ========================================= detectAnomalies: unusual amounts

\* Scans of at most MaxUnusualTx transactions of one merchant against a
\* baseline of three observations: 1.00, 1.10 and 0.90 (mean 1.00, sample
\* standard deviation 0.10), or 1.00 three times (standard deviation 0).
MaxUnusualTx == 2

UnusualTxs ==
  { Tx(x[1], 5, x[2], <<"A">>, CategoryObj("Food")) :
      x \in { <<"1", -100>>, <<"2", -120>>, <<"3", -125>>, <<"4", -130>>,
              <<"5", -139>>, <<"6", -140>>, <<"7", 60>> } }

VariedHistory ==
  <<Tx("h1", 0, -100, <<"a">>, CategoryObj("Food")),
    Tx("h2", 1, -110, <<"A">>, CategoryObj("Food")),
    Tx("h3", 2, -90, <<"A", " ">>, CategoryObj("Food"))>>

EqualHistory ==
  <<Tx("h1", 0, -100, <<"a">>, CategoryObj("Food")),
    Tx("h2", 1, -100, <<"A">>, CategoryObj("Food")),
    Tx("h3", 2, -100, <<"A", " ">>, CategoryObj("Food"))>>

UnusualOptions ==
  [stdDevThreshold : {Undefined, <<RInt(1)>>, <<RInt(3)>>},
   duplicateWindowDays : {Undefined},
   minTransactionsForStats : {Undefined, <<2>>, <<4>>},
   historicalTransactions : {<<VariedHistory>>, <<EqualHistory>>}]

InitUnusualAmounts ==
  /\ fn = "detectAnomalies"
  /\ \E txs \in SeqUpTo(UnusualTxs, MaxUnusualTx), options \in UnusualOptions :
       args = [transactions |-> txs, options |-> options]
  /\ today = FirstToday
  /\ pc = "ready"
  /\ result = NoResult
  /\ ServerIdle

SpecUnusualAmounts == InitUnusualAmounts /\ [][CallAnomalies]_vars

UnusualAnomalies == SelectSeq(result, LAMBDA a : a.type = "unusual_amount")

\* The baseline of the call and, for a normalized merchant, the number n of
\* its baseline observations, their sum and the sum of their squares (cents).
BaselineTxs == OrElse(args.options.historicalTransactions, args.transactions)
BaselineOf(norm) ==
  SelectSeq(BaselineTxs, LAMBDA tx : NormalizeMerchant(tx.merchant) = norm)
BaselineSum(obs) == SumCents([i \in DOMAIN obs |-> Abs(obs[i].amount)])
BaselineSquares(obs) == SumCents([i \in DOMAIN obs |-> obs[i].amount * obs[i].amount])

\* |x - mean| >= (num / den) sample standard deviations, and the same with >,
\* for the absolute amount x and n >= 2 observations of sum S and sum of
\* squares Q: (n - 1) (n x - S)^2 den^2 against num^2 n (n Q - S^2).
DeviationLeft(obs, x, den) ==
  (Len(obs) - 1) * (Len(obs) * x - BaselineSum(obs)) * (Len(obs) * x - BaselineSum(obs))
    * den * den
DeviationRight(obs, num) ==
  num * num * Len(obs)
    * (Len(obs) * BaselineSquares(obs) - BaselineSum(obs) * BaselineSum(obs))
DeviatesByMoreThan(obs, x, num, den) == DeviationLeft(obs, x, den) > DeviationRight(obs, num)
DeviatesByAtLeast(obs, x, num, den) == DeviationLeft(obs, x, den) >= DeviationRight(obs, num)

UnusualThreshold == OrElse(args.options.stdDevThreshold, RInt(2))
UnusualMinTx == OrElse(args.options.minTransactionsForStats, 3)

\* The unusual-amount anomalies the claim gives to the scanned transaction
\* at position i: none, or one with the severity of its deviation.
ClaimedUnusual(i) ==
  LET tx == args.transactions[i]
      obs == BaselineOf(NormalizeMerchant(tx.merchant))
      x == Abs(tx.amount)
  IN  IF /\ Len(obs) >= UnusualMinTx
         /\ DeviatesByMoreThan(obs, x, UnusualThreshold[1], UnusualThreshold[2])
      THEN {[type |-> "unusual_amount",
             severity |-> IF DeviatesByAtLeast(obs, x, 4, 1) THEN "high"
                          ELSE IF DeviatesByAtLeast(obs, x, 3, 1) THEN "medium"
                          ELSE "low",
             transaction |-> AnomalyTx(tx)]}
      ELSE {}

ReportedUnusual(i) ==
  {[type |-> a.type, severity |-> a.severity, transaction |-> a.transaction] :
     a \in {UnusualAnomalies[k] : k \in {k \in DOMAIN UnusualAnomalies :
              UnusualAnomalies[k].transaction = AnomalyTx(args.transactions[i])}}}

ZeroDeviationBaseline(i) ==
  LET obs == BaselineOf(NormalizeMerchant(args.transactions[i].merchant))
  IN  Len(obs) * BaselineSquares(obs) = BaselineSum(obs) * BaselineSum(obs)

\* C23 (as claimed): for every merchant with at least minTransactionsForStats
\* baseline observations, a scanned transaction is reported as
\* 'unusual_amount' exactly when its absolute amount deviates from the
\* baseline mean by more than stdDevThreshold sample standard deviations, a
\* baseline of equal observations included, with severity high at >= 4
\* deviations, medium at >= 3, low otherwise.
C23_UnusualAmountBeyondThreshold ==
  AnomaliesDone =>
    \A i \in DOMAIN args.transactions : ReportedUnusual(i) = ClaimedUnusual(i)

\* The same for the baselines whose observations are not all equal.
C23_UnusualAmountWhenBaselineVaries ==
  AnomaliesDone =>
    \A i \in DOMAIN args.transactions :
      ReportedUnusual(i) = IF ZeroDeviationBaseline(i) THEN {} ELSE ClaimedUnusual(i)

\* ==================================== analyzeSubscriptions: price changes

\* At most MaxPriceTx rows of one merchant on days 0, 30 and 60 at $0.00,
\* $9.99 and $14.99, under the default threshold (1%) and under 50%.
MaxPriceTx == 3

PriceTxs ==
  { Recurring("r", d, a, <<"A">>) : d \in {0, 30, 60}, a \in {0, -999, -1499} }

PriceOptions ==
  [dayTolerance : {Undefined}, priceChangeThreshold : {Undefined, <<RInt(50)>>}]

InitPriceHistory ==
  /\ fn = "analyzeSubscriptions"
  /\ \E txs \in SeqUpTo(PriceTxs, MaxPriceTx), options \in PriceOptions :
       args = [recurringTransactions |-> txs, options |-> options]
  /\ today = FirstToday
  /\ pc = "ready"
  /\ result = NoResult
  /\ ServerIdle

SpecPriceHistory == InitPriceHistory /\ [][CallSubscriptions]_vars

\* The positions of a price history whose amount differs from the latest.
EarlierDistinct(history) ==
  {i \in DOMAIN history : history[i].amount # history[Len(history)].amount}

\* The flag the claim describes: the latest amount against the most recent
\* amount that differs from it.
LatestTwoDistinctChanged(history, thresholdPercent) ==
  IF EarlierDistinct(history) = {} THEN FALSE
  ELSE
    LET latest == history[Len(history)].amount
        previous == history[MaxOf(EarlierDistinct(history))].amount
    IN  IF RIsZero(previous) THEN TRUE
        ELSE RLe(RMul(thresholdPercent, previous),
                 RMul(RAbs(RSub(latest, previous)), RInt(100)))

\* C24 (as claimed): priceChanged compares the latest two distinct amounts of
\* the chronological price history: it is true exactly when the absolute
\* percent change between them is >= priceChangeThreshold, a change from 0 to
\* a non-zero amount always counting; a history 9.99, 14.99, 14.99 is flagged.
C24_PriceChangedOnLatestDistinctAmounts ==
  SubscriptionsDone =>
    \A k \in DOMAIN result.subscriptions :
      result.subscriptions[k].priceChanged
        <=> LatestTwoDistinctChanged(result.subscriptions[k].priceHistory,
                                     SubscriptionThreshold)

\* What the code compares: the last two entries of the price history.
C24_PriceChangedOnLastTwoEntries ==
  SubscriptionsDone =>
    \A k \in DOMAIN result.subscriptions :
      LET history == result.subscriptions[k].priceHistory
          n == Len(history)
      IN  result.subscriptions[k].priceChanged
            <=> /\ n >= 2
                /\ LatestTwoDistinctChanged(SubSeq(history, n - 1, n), SubscriptionThreshold)

\* ================================= analyzeSubscriptions: frequency inference

\* Two or three rows of one merchant spanning 0..MaxSpan days (mean intervals
\* 0, 0.5, 1, ... MaxSpan), under every dayTolerance of 0..MaxTolerance.
MaxSpan == 40
MaxTolerance == 10

FrequencyRows(span) ==
  { <<Recurring("r", 0, -1000, <<"A">>), Recurring("r", span, -1000, <<"A">>)>>,
    <<Recurring("r", span, -1000, <<"A">>), Recurring("r", 0, -1000, <<"A">>),
      Recurring("r", span \div 2, -1000, <<"A">>)>> }

InitFrequency ==
  /\ fn = "analyzeSubscriptions"
  /\ \E span \in 0..MaxSpan, tolerance \in 0..MaxTolerance :
       \E txs \in FrequencyRows(span) :
         args = [recurringTransactions |-> txs,
                 options |-> [dayTolerance |-> <<tolerance>>,
                              priceChangeThreshold |-> Undefined]]
  /\ today = FirstToday
  /\ pc = "ready"
  /\ result = NoResult
  /\ ServerIdle

SpecFrequency == InitFrequency /\ [][CallSubscriptions]_vars

\* detectFrequency with the second 'weekly' check (the biweekly heuristic)
\* removed from the chain.
DetectFrequencyWithoutBiweekly(sorted, tolerance) ==
  IF Len(sorted) < 2 THEN "monthly"
  ELSE
    LET intervals == [i \in 1..(Len(sorted) - 1) |->
                        RInt(DaysBetweenAbs(sorted[i].date, sorted[i + 1].date))]
        avgInterval == RDiv(RSumSeq(intervals), RInt(Len(intervals)))
    IN  IF IsWithin(avgInterval, 7, tolerance) THEN "weekly"
        ELSE IF IsWithin(avgInterval, 30, tolerance + 3) THEN "monthly"
        ELSE IF IsWithin(avgInterval, 91, tolerance + 10) THEN "quarterly"
        ELSE IF IsWithin(avgInterval, 365, tolerance + 30) THEN "annual"
        ELSE ClosestFrequency(avgInterval, "weekly",
                              <<"weekly", "monthly", "quarterly", "annual">>)

\* The rows of the call: their number of intervals and the days they span,
\* the mean interval being SpanDays / IntervalCount.
IntervalCount == Len(args.recurringTransactions) - 1
SpanDays ==
  MaxOf({args.recurringTransactions[i].date : i \in DOMAIN args.recurringTransactions})
  - MinOf({args.recurringTransactions[i].date : i \in DOMAIN args.recurringTransactions})

\* |mean interval - target| <= tolerance
MeanWithin(target, tolerance) ==
  Abs(SpanDays - target * IntervalCount) <= tolerance * IntervalCount

\* The biweekly check is reached and decides: neither the weekly nor the
\* monthly check before it matched, and the mean is within tolerance of 14.
BiweeklyDecides ==
  /\ IntervalCount >= 1
  /\ ~MeanWithin(7, SubscriptionTolerance)
  /\ ~MeanWithin(30, SubscriptionTolerance + 3)
  /\ MeanWithin(14, SubscriptionTolerance)

\* The mean interval is nearer to 30 days than to 7: above 18.5.
NearerMonthly == 2 * SpanDays > 37 * IntervalCount

\* C25 (as claimed): the second 'weekly' check is unreachable or redundant:
\* for every mean interval and every dayTolerance detectFrequency returns the
\* same frequency as the chain without that check.
C25_BiweeklyCheckRedundant ==
  SubscriptionsDone =>
    \A k \in DOMAIN result.subscriptions :
      result.subscriptions[k].frequency
        = DetectFrequencyWithoutBiweekly(ChronologicalOf(result.subscriptions[k]),
                                         SubscriptionTolerance)

\* C25 (amended): the second 'weekly' check is reachable, and it changes the
\* result exactly when it decides for a mean interval above 18.5 days:
\* detectFrequency then returns "weekly" where the chain without the check
\* returns "monthly"; for every other mean interval and dayTolerance the two
\* chains return the same frequency.
C25_BiweeklyCheckDecidesAbove18 ==
  SubscriptionsDone =>
    \A k \in DOMAIN result.subscriptions :
      LET without == DetectFrequencyWithoutBiweekly(ChronologicalOf(result.subscriptions[k]),
                                                    SubscriptionTolerance)
      IN  IF BiweeklyDecides /\ NearerMonthly
          THEN result.subscriptions[k].frequency = "weekly" /\ without = "monthly"
          ELSE result.subscriptions[k].frequency = without

\* Under the default tolerance of 5 days, rows 19 days apart: the biweekly
\* check returns "weekly".
C25_Witness ==
  /\ SubscriptionsDone
  /\ SubscriptionTolerance = 5 /\ SpanDays = 19 /\ IntervalCount = 1
  /\ BiweeklyDecides /\ NearerMonthly
  /\ result.subscriptions[1].frequency = "weekly"

\* ======================================= forecastCashflow: daily projections

ForecastHorizon == OrElse(args.options.forecastDays, 30)

\* The date is an occurrence of the schedule that starts at current and
\* advances by the frequency.
RECURSIVE IsOccurrence(_, _, _)
IsOccurrence(current, frequency, date) ==
  IF current >= date THEN current = date
  ELSE IsOccurrence(AdvanceByFrequency(current, frequency), frequency, date)

\* The signed amounts, in cents, of the occurrences of every recurring item
\* dated after today and at most d days later.
EventsThrough(d) ==
  SumCents([i \in DOMAIN args.recurringItems |->
              args.recurringItems[i].amount
              * Cardinality({date \in (today + 1)..(today + d) :
                               IsOccurrence(args.recurringItems[i].nextDate,
                                            args.recurringItems[i].frequency, date)})])

DiscretionaryMean ==
  ComputeDailyStats(DiscretionaryExpenses(args.transactions, args.recurringItems,
                                          args.options)).dailyAvg

\* The balance the claim gives to day d, to the cent.
ProjectedOn(d) ==
  Round2(RSub(RAdd(Cents(SumBalances(SelectedPositions)), Cents(EventsThrough(d))),
              RMul(RInt(d), DiscretionaryMean)))

\* C26: forecastCashflow returns exactly forecastDays daily projections, for
\* the consecutive dates today+1 .. today+forecastDays; the projected balance
\* of day d is, to the cent, the starting balance plus the signed amounts of
\* every recurring occurrence dated in (today, today+d], each counted once,
\* minus d times the discretionary daily mean; projectedBalance is the last
\* day's projected value, and the starting balance when forecastDays is 0.
C26_DailyProjectionsFollowTheCalendar ==
  ForecastDone =>
    /\ Len(result.dailyProjections) = ForecastHorizon
    /\ \A d \in DOMAIN result.dailyProjections :
         /\ result.dailyProjections[d].date = today + d
         /\ result.dailyProjections[d].projected = ProjectedOn(d)
    /\ result.projectedBalance =
         IF ForecastHorizon = 0 THEN Cents(SumBalances(SelectedPositions))
         ELSE result.dailyProjections[ForecastHorizon].projected

\* A forecast over 30 days with a weekly income that falls five times in the
\* window and a non-zero discretionary mean.
C26_Witness ==
  /\ ForecastDone
  /\ ForecastHorizon = 30
  /\ \E i \in DOMAIN args.recurringItems :
       /\ args.recurringItems[i].frequency = "weekly"
       /\ Cardinality({date \in (today + 1)..(today + 30) :
                         IsOccurrence(args.recurringItems[i].nextDate, "weekly", date)}) = 5
  /\ ~RIsZero(DiscretionaryMean)
  /\ result.projectedBalance = ProjectedOn(30)

\* ===================================================== the Monarch client
\*
\* getMonarchClient is an async function: a call runs from one await to the
\* next without interruption, and other calls run in between. A call is at
\* "validating" while it awaits validateSession(), at "awaiting" while it
\* awaits the login it started, at "joined" when it has returned the login
\* promise of another call, and at "returned" or "threw" when it is over.
\* The login of index k, when it succeeds, yields the client k.

MaxLogins == 3

Login(state) == [state |-> state]

PendingLogins == {k \in DOMAIN logins : logins[k].state = "pending"}

\* if (loginPromise) return loginPromise; loginPromise = createClient(); ...
\* await loginPromise
JoinOrLogin(c, instance) ==
  IF loginPromise # 0
  THEN /\ callers' = [callers EXCEPT ![c] = [pc |-> "joined", login |-> loginPromise, got |-> 0]]
       /\ clientInstance' = instance
       /\ UNCHANGED <<loginPromise, logins>>
  ELSE /\ Len(logins) < MaxLogins
       /\ logins' = Append(logins, Login("pending"))
       /\ loginPromise' = Len(logins) + 1
       /\ callers' = [callers EXCEPT ![c] = [pc |-> "awaiting", login |-> Len(logins) + 1,
                                             got |-> 0]]
       /\ clientInstance' = instance

\* A call of getMonarchClient, up to its first await.
GetMonarchClient(c) ==
  /\ callers[c].pc \in {"idle", "returned", "threw"}
  /\ IF clientInstance # 0
     THEN /\ callers' = [callers EXCEPT ![c] = [pc |-> "validating", login |-> 0, got |-> 0]]
          /\ UNCHANGED <<clientInstance, loginPromise, logins>>
     ELSE JoinOrLogin(c, clientInstance)
  /\ UNCHANGED <<analysisVars, oauthVars, httpVars, reply>>

\* validateSession() settles: the call returns clientInstance when the
\* session is valid, clears it when the validation threw, and goes on to the
\* login otherwise.
SessionValidated(c, outcome) ==
  /\ callers[c].pc = "validating"
  /\ IF outcome = "valid"
     THEN /\ callers' = [callers EXCEPT ![c] = [pc |-> "returned", login |-> 0,
                                                got |-> clientInstance]]
          /\ UNCHANGED <<clientInstance, loginPromise, logins>>
     ELSE JoinOrLogin(c, IF outcome = "threw" THEN 0 ELSE clientInstance)
  /\ UNCHANGED <<analysisVars, oauthVars, httpVars, reply>>

\* The login k settles and the call that started it goes on: clientInstance
\* = await loginPromise, and loginPromise = null in the finally block.
LoginSettled(k, outcome) ==
  /\ k \in PendingLogins
  /\ logins' = [logins EXCEPT ![k] = Login(outcome)]
  /\ loginPromise' = 0
  /\ clientInstance' = IF outcome = "resolved" THEN k ELSE clientInstance
  /\ callers' = [c \in Callers |->
                   IF callers[c].pc = "awaiting" /\ callers[c].login = k
                   THEN [pc |-> IF outcome = "resolved" THEN "returned" ELSE "threw",
                         login |-> k, got |-> IF outcome = "resolved" THEN k ELSE 0]
                   ELSE callers[c]]
  /\ UNCHANGED <<analysisVars, oauthVars, httpVars, reply>>

\* A call that returned the login promise of another call gets its outcome.
LoginJoined(c) ==
  /\ callers[c].pc = "joined"
  /\ callers[c].login \notin PendingLogins
  /\ callers' = [callers EXCEPT ![c] =
                   [pc |-> IF logins[callers[c].login].state = "resolved"
                           THEN "returned" ELSE "threw",
                    login |-> callers[c].login,
                    got |-> IF logins[callers[c].login].state = "resolved"
                            THEN callers[c].login ELSE 0]]
  /\ UNCHANGED <<clientInstance, loginPromise, logins>>
  /\ UNCHANGED <<analysisVars, oauthVars, httpVars, reply>>

ResetMonarchClient ==
  /\ clientInstance' = 0
  /\ loginPromise' = 0
  /\ UNCHANGED <<logins, callers>>
  /\ UNCHANGED <<analysisVars, oauthVars, httpVars, reply>>

NextMonarchWithoutReset ==
  \/ \E c \in Callers : GetMonarchClient(c)
  \/ \E c \in Callers, outcome \in {"valid", "invalid", "threw"} : SessionValidated(c, outcome)
  \/ \E k \in DOMAIN logins, outcome \in {"resolved", "rejected"} : LoginSettled(k, outcome)
  \/ \E c \in Callers : LoginJoined(c)

NextMonarch == NextMonarchWithoutReset \/ ResetMonarchClient

SpecMonarch == InitServer /\ [][NextMonarch]_vars

SpecMonarchWithoutReset == InitServer /\ [][NextMonarchWithoutReset]_vars

Waiting == {c \in Callers : callers[c].pc \in {"awaiting", "joined"}}

\* C27 (as claimed): under any interleaving of getMonarchClient and
\* resetMonarchClient calls at most one createClient() login is pending at a
\* time, the calls that wait for a login wait for the same one (and so
\* receive the same client), and a settled login, failed or not, is no
\* longer the pending one, so that a later call retries.
C27_OneLoginAtATime ==
  /\ Cardinality(PendingLogins) <= 1
  /\ \A c1, c2 \in Waiting :
       (callers[c1].login \in PendingLogins /\ callers[c2].login \in PendingLogins)
         => callers[c1].login = callers[c2].login
  /\ loginPromise # 0 => loginPromise \in PendingLogins

\* The same while resetMonarchClient is never called.
C27_OneLoginWithoutReset == C27_OneLoginAtATime


\* ------------------------------------- a code whose exchange has failed

\* The token endpoint has just answered an authorization_code request that
\* named a code and a client.
CodeExchanged ==
  /\ reply' # NoReply
  /\ reply'.op = "token"
  /\ ~RepliedTo("token") \/ reply' # reply
  /\ reply'.arg.grant_type = "authorization_code"
  /\ reply'.value.error # "invalid_request"

\* The exchange found the code and then refused it: the client_id, the
\* redirect_uri or the PKCE check failed.
ExchangeRefused ==
  CodeExchanged /\ reply'.value.authCode # Null /\ reply'.value.error # ""

\* C28: a code presented to POST /oauth/token is consumed whether or not the
\* exchange succeeds. An exchange that found the code and failed the
\* client_id, redirect_uri or PKCE check leaves the code out of the table and
\* issues nothing; every later exchange of a code that was found before, with
\* whatever parameters, answers 400 invalid_grant and issues nothing.
C28_CodeConsumedOnFailure ==
  [][ /\ ExchangeRefused =>
           /\ reply'.value.status = 400
           /\ SelectAuthCode(authCodes', reply'.arg.code) = {}
           /\ reply'.arg.code \in Range(audit'.redeemed)
           /\ tokens' = tokens
           /\ audit'.issued = audit.issued
      /\ (CodeExchanged /\ reply'.arg.code \in Range(audit.redeemed)) =>
           /\ reply'.value.status = 400
           /\ reply'.value.error = "invalid_grant: code"
           /\ tokens' = tokens
           /\ audit'.issued = audit.issued
    ]_vars

\* A code was found by an exchange that failed, and a second request with the
\* same code, the client it was issued to, its redirect_uri and the verifier
\* of its challenge has been refused: no token pair was ever issued.
C28_Witness ==
  /\ RepliedTo("token")
  /\ reply.arg.grant_type = "authorization_code"
  /\ reply.arg.client_id = "c1"
  /\ reply.arg.redirect_uri = RedirectUri
  /\ reply.arg.code_verifier = "v1"
  /\ reply.arg.code \in Range(audit.redeemed)
  /\ reply.value.error = "invalid_grant: code"
  /\ IssuedCount("access") = 0
  /\ tokens = {}

====
